---------------------------- MODULE Spec2Model ----------------------------
(***************************************************************************)
(* DumbDrop chunked upload coordinator: the /init, /chunk/:uploadId and    *)
(* /cancel/:uploadId handlers of src/routes/upload.js, the path helpers of *)
(* utils/fileUtils.js they call, and the file system underneath them.      *)
(*                                                                         *)
(* Strings are sequences of one-character strings.  Absolute, normalized   *)
(* file-system paths are sequences of segments (each segment a string).    *)
(***************************************************************************)
EXTENDS Integers, Sequences, FiniteSets, TLC

(***************************************************************************)
(* Strings                                                                 *)
(***************************************************************************)
SLASH == "/"
BACKSLASH == "\\"
DOT == "."

DigitChars == <<"0", "1", "2", "3", "4", "5", "6", "7", "8", "9">>

\* Decimal rendering of a natural number, as in a template literal `${n}`.
RECURSIVE NumStr(_)
NumStr(n) ==
    IF n < 10 THEN <<DigitChars[n + 1]>>
    ELSE NumStr(n \div 10) \o <<DigitChars[(n % 10) + 1]>>

Last(s) == s[Len(s)]
Front(s) == SubSeq(s, 1, Len(s) - 1)

\* String.prototype.split(sep) for a one-character separator.
RECURSIVE Split(_, _)
Split(s, sep) ==
    IF \A i \in 1..Len(s) : s[i] # sep THEN <<s>>
    ELSE LET k == CHOOSE i \in 1..Len(s) :
                      s[i] = sep /\ \A j \in 1..(i - 1) : s[j] # sep
         IN  <<SubSeq(s, 1, k - 1)>> \o Split(SubSeq(s, k + 1, Len(s)), sep)

\* Array.prototype.join(sep).
RECURSIVE JoinWith(_, _)
JoinWith(parts, sep) ==
    IF Len(parts) = 0 THEN <<>>
    ELSE IF Len(parts) = 1 THEN parts[1]
    ELSE parts[1] \o <<sep>> \o JoinWith(Tail(parts), sep)

\* Array.prototype.filter(Boolean) on an array of strings: drops the empty ones.
RECURSIVE FilterNonEmpty(_)
FilterNonEmpty(parts) ==
    IF Len(parts) = 0 THEN <<>>
    ELSE IF parts[1] = <<>> THEN FilterNonEmpty(Tail(parts))
    ELSE <<parts[1]>> \o FilterNonEmpty(Tail(parts))

(***************************************************************************)
(* Node's path module, POSIX flavour (the server runs in a Linux image):   *)
(* only "/" separates segments, a backslash is an ordinary character.      *)
(***************************************************************************)
DOTDOT == <<DOT, DOT>>

\* normalizeString: resolves "." and ".." segments from left to right.
RECURSIVE NormalizeSegs(_, _, _)
NormalizeSegs(segs, acc, allowAboveRoot) ==
    IF Len(segs) = 0 THEN acc
    ELSE LET s == segs[1]
             rest == Tail(segs)
         IN  IF s = <<>> \/ s = <<DOT>>
             THEN NormalizeSegs(rest, acc, allowAboveRoot)
             ELSE IF s = DOTDOT
             THEN IF Len(acc) > 0 /\ Last(acc) # DOTDOT
                  THEN NormalizeSegs(rest, Front(acc), allowAboveRoot)
                  ELSE IF allowAboveRoot
                  THEN NormalizeSegs(rest, Append(acc, DOTDOT), allowAboveRoot)
                  ELSE NormalizeSegs(rest, acc, allowAboveRoot)
             ELSE NormalizeSegs(rest, Append(acc, s), allowAboveRoot)

\* path.normalize(p) on a string.
PathNormalize(p) ==
    IF Len(p) = 0 THEN <<DOT>>
    ELSE LET isAbsolute == p[1] = SLASH
             trailingSeparator == Last(p) = SLASH
             body == JoinWith(NormalizeSegs(Split(p, SLASH), <<>>, ~isAbsolute), SLASH)
         IN  IF Len(body) = 0
             THEN IF isAbsolute THEN <<SLASH>>
                  ELSE IF trailingSeparator THEN <<DOT, SLASH>> ELSE <<DOT>>
             ELSE (IF isAbsolute THEN <<SLASH>> ELSE <<>>) \o body
                  \o (IF trailingSeparator THEN <<SLASH>> ELSE <<>>)

\* path.join(dir, rel...) for an absolute dir given as a segment sequence and
\* a relative string: the segments of the normalized result.
PathJoin(dirSegs, rel) ==
    NormalizeSegs(dirSegs \o Split(rel, SLASH), <<>>, FALSE)

\* path.join(dir, ...parts) for a list of parts.
PathJoinParts(dirSegs, parts) ==
    NormalizeSegs(dirSegs \o parts, <<>>, FALSE)

\* path.dirname / path.basename of an absolute normalized path.
PathDirname(segs) == IF Len(segs) = 0 THEN <<>> ELSE Front(segs)
PathBasename(segs) == IF Len(segs) = 0 THEN <<>> ELSE Last(segs)

\* path.extname of a base name: from the last dot to the end, empty when there
\* is no dot, when the only dot is the first character, or for "..".
PathExtname(base) ==
    IF \A i \in 1..Len(base) : base[i] # DOT THEN <<>>
    ELSE LET k == CHOOSE i \in 1..Len(base) :
                      base[i] = DOT /\ \A j \in (i + 1)..Len(base) : base[j] # DOT
         IN  IF k = 1 \/ base = DOTDOT THEN <<>>
             ELSE SubSeq(base, k, Len(base))

\* path.basename(p, ext): the base name without its extension.
PathBasenameNoExt(segs) ==
    LET base == PathBasename(segs)
    IN  SubSeq(base, 1, Len(base) - Len(PathExtname(base)))


(***************************************************************************)
(* Bounds of the model                                                     *)
(***************************************************************************)
\* Number of uploads that are initialized where chunks are followed.
MaxUploads == 1
\* Number of uploads that are initialized where paths are followed.
MaxPathUploads == 2
\* config.maxFileSize, in bytes, of the modelled deployment.
MaxFileSize == 2
\* Longest request body of a /chunk request, in bytes.
MaxChunk == 2
\* Number of clock ticks the model lets pass.
MaxTicks == 2
\* The chunk requests that are served side by side.
MaxHandlers == 3
\* The shutdown tasks that are registered beside the ones of the limiters.
MaxTasks == 2

(***************************************************************************)
(* Configuration and request inputs                                        *)
(***************************************************************************)
\* config.uploadDir (UPLOAD_DIR=/app/uploads in docker-compose.yml).
UploadDir == << <<"a", "p", "p">>, <<"u", "p", "l", "o", "a", "d", "s">> >>

\* Batches untouched for this long are dropped by the batch sweep (ms).
BATCH_TIMEOUT == 30 * 60 * 1000
\* config.uploadTimeout || 30 * 60 * 1000: the janitor's inactivity threshold.
inactivityThreshold == 30 * 60 * 1000
\* The clock advances in steps of one timeout, so that an age is below, at or
\* above the thresholds.
TickMs == BATCH_TIMEOUT

\* "a.t"
NameFile == <<"a", ".", "t">>
\* "f/a.t"
NameInFolderA == <<"f", "/", "a", ".", "t">>
\* "f/b.t"
NameInFolderB == <<"f", "/", "b", ".", "t">>
\* "f\..\..\a.t"
NameTraversal == <<"f", "\\", ".", ".", "\\", ".", ".", "\\", "a", ".", "t">>
\* "docs/report.pdf"
NameReport == <<"d", "o", "c", "s", "/", "r", "e", "p", "o", "r", "t", ".", "p", "d", "f">>

\* "a.T" and "a.x"
NameUpperExt == <<"a", ".", "T">>
NameOtherExt == <<"a", ".", "x">>

\* req.body.filename of the /init requests; the empty string is a missing name.
FileNames == {<<>>, NameFile, NameInFolderA, NameInFolderB, NameTraversal}

\* The documented scenario: a 10-byte file sent as a 6-byte and a 4-byte chunk.
ScenarioFile == [kind |-> "number", n |-> 10]
ScenarioChunks == <<6, 4>>

\* req.body.fileSize: absent, not a number, or an integer.
FileSizeMissing == [kind |-> "missing", n |-> 0]
FileSizeNaN == [kind |-> "nan", n |-> 0]
FileSizeNumber(k) == [kind |-> "number", n |-> k]
FileSizes == {FileSizeMissing, FileSizeNaN}
                 \cup {FileSizeNumber(k) : k \in -1..(MaxFileSize + 1)}

\* x-batch-id header values: absent (empty), two well-formed ids, a malformed one.
NoHeader == <<>>
BatchOne == <<"1", "-", "a", "a", "a", "a", "a", "a", "a", "a", "a">>
BatchTwo == <<"2", "-", "b", "b", "b", "b", "b", "b", "b", "b", "b">>
BatchBad == <<"x">>
BatchHeaders == {NoHeader, BatchOne, BatchTwo, BatchBad}

\* crypto.randomBytes(4).toString('hex'): eight hexadecimal characters.
RandomHex == {<<"0", "1", "2", "3", "4", "5", "6", "7">>,
              <<"8", "9", "a", "b", "c", "d", "e", "f">>}

(***************************************************************************)
(* State                                                                   *)
(***************************************************************************)
VARIABLES
    uploads,         \* Map uploadId -> upload entry
    folderMappings,  \* Map "originalFolderName-batchId" -> folder name on disk
    batchActivity,   \* Map batchId -> time of last activity
    uploadToBatch,   \* Map uploadId -> batchId
    dirs,            \* file system: the directories that exist
    files,           \* file system: path -> content of the regular files
    now,             \* Date.now()
    config,          \* the frozen configuration object
    nextId,          \* the next upload id the generator returns
    resp,            \* the last request and the response it got
    client,          \* per issued upload id: what the client declared and sent
    inflight,        \* the handlers that are suspended at an await
    limiter,         \* the store of initUploadLimiter: client key -> hits
    request,         \* the last request to /api/upload and how far it got
    metadata,        \* the .metadata directory: file name -> what the file holds
    loginAttempts,   \* Map ip -> failed PIN verifications and the time of the last
    cleanupTasks,    \* the registry of shutdown tasks, and what the last run did
    parallel         \* chunk handlers that share one upload entry and its stream

vars == <<uploads, folderMappings, batchActivity, uploadToBatch, dirs, files,
          now, config, nextId, resp, client, inflight, limiter, request,
          metadata, loginAttempts, cleanupTasks, parallel>>

\* What the middleware in front of the upload routes owns and records.
edge == <<limiter, request>>

\* What the upload routes and their middleware never touch.
aside == <<metadata, loginAttempts, cleanupTasks, parallel>>

EmptyMap == [x \in {} |-> 0]

\* No handler is suspended: init and chunk map the upload id of a suspended
\* /init or /chunk handler to its locals, sweep holds the locals of a janitor
\* sweep that is under way.
\* The registry holds the tasks of the four rate limiters, and executeCleanup
\* has not run.  run is the registry as the run of executeCleanup found it,
\* started the tasks it has called, waiting the ones whose wrapper has not
\* settled; settled is the state of the promise of executeCleanup.
NoTasks ==
    [registry |-> <<"resetAll", "resetAll", "resetAll", "resetAll">>, run |-> <<>>,
     started |-> {}, waiting |-> {}, settled |-> "none", log |-> "none"]

\* No chunk handler runs beside another one.  chunk maps the number of a
\* request to the locals of its handler, writing lists the requests whose write
\* a stream has under way, pending the ones whose write is buffered behind it,
\* enders the ones that wait for the callback of end(),
\* microtasks the continuations that run before the next event is taken;
\* finished holds the uploads whose stream has emitted finish, detached the
\* entries that were deleted from the map and are still referenced; ended and
\* notified count, per upload, the end() calls that reported success and the
\* calls of the notifier.
NoParallel ==
    [chunk |-> EmptyMap, writing |-> <<>>, pending |-> <<>>, enders |-> <<>>, microtasks |-> <<>>,
     finished |-> {}, detached |-> EmptyMap, next |-> 1,
     ended |-> EmptyMap, notified |-> EmptyMap]

NoInflight == [init |-> EmptyMap, chunk |-> EmptyMap, cancel |-> EmptyMap, sweep |-> <<>>]

\* Map.set / Map.delete
MapSet(m, k, v) == [x \in (DOMAIN m) \cup {k} |-> IF x = k THEN v ELSE m[x]]
MapDelete(m, k) == [x \in (DOMAIN m) \ {k} |-> m[x]]

(***************************************************************************)
(* File system calls.  d is the set of directories, f the map of files.    *)
(***************************************************************************)
FsExists(d, f, p) == p \in d \/ p \in DOMAIN f

Prefixes(p) == {SubSeq(p, 1, k) : k \in 0..Len(p)}

\* fs.promises.mkdir(p, { recursive: true }): fails when a file is in the way.
MkdirRecursive(d, f, p) ==
    IF \E q \in Prefixes(p) : q \in DOMAIN f
    THEN [ok |-> FALSE, dirs |-> d]
    ELSE [ok |-> TRUE, dirs |-> d \cup Prefixes(p)]

\* Error code of fs.promises.mkdir(p, { recursive: false }).
MkdirCode(d, f, p) ==
    IF FsExists(d, f, p) THEN "EEXIST"
    ELSE IF PathDirname(p) \in d THEN "OK"
    ELSE IF PathDirname(p) \in DOMAIN f THEN "ENOTDIR"
    ELSE "ENOENT"

\* Variant: the flag 'w', which opens and truncates a file that exists.
OpenWCode(d, f, p) ==
    IF p \in d THEN "EISDIR"
    ELSE IF p \in DOMAIN f \/ PathDirname(p) \in d THEN "OK"
    ELSE IF PathDirname(p) \in DOMAIN f THEN "ENOTDIR"
    ELSE "ENOENT"
\* Error code of fs.promises.open(p, 'wx'): O_CREAT | O_EXCL.
OpenWxCode(d, f, p) ==
    IF FsExists(d, f, p) THEN "EEXIST"
    ELSE IF PathDirname(p) \in d THEN "OK"
    ELSE IF PathDirname(p) \in DOMAIN f THEN "ENOTDIR"
    ELSE "ENOENT"

(***************************************************************************)
(* utils/fileUtils.js                                                      *)
(***************************************************************************)
\* Variant: the number goes after the extension.
NumberedNameAfterExt(baseName, counter, ext) ==
    baseName \o ext \o <<" ", "(">> \o NumStr(counter) \o <<")">>
\* `${baseName} (${counter})${ext}`
NumberedName(baseName, counter, ext) ==
    baseName \o <<" ", "(">> \o NumStr(counter) \o <<")">> \o ext

\* The counter the probing loops start from.
FirstCounter == 1

\* getUniqueFilePath: opens filePath exclusively, and on EEXIST the numbered
\* variants of it in turn; any other error is thrown.
RECURSIVE ProbeFilePath(_, _, _, _, _)
ProbeFilePath(d, f, filePath, finalPath, counter) ==
    LET code == OpenWxCode(d, f, finalPath)
        dir == PathDirname(filePath)
        ext == PathExtname(PathBasename(filePath))
        baseName == PathBasenameNoExt(filePath)
    IN  IF code = "OK" THEN [ok |-> TRUE, path |-> finalPath]
        ELSE IF code = "EEXIST"
        THEN ProbeFilePath(d, f, filePath,
                           Append(dir, NumberedName(baseName, counter, ext)),
                           counter + 1)
        ELSE [ok |-> FALSE, path |-> finalPath]

getUniqueFilePath(d, f, filePath) ==
    ProbeFilePath(d, f, filePath, filePath, FirstCounter)

\* `${folderPath} (${counter})` on the path string.
NumberedFolder(folderPath, counter) ==
    IF Len(folderPath) = 0 THEN <<NumberedName(<<>>, counter, <<>>)>>
    ELSE Append(Front(folderPath), NumberedName(Last(folderPath), counter, <<>>))

\* getUniqueFolderPath: mkdir of folderPath, and on EEXIST of its numbered
\* variants in turn; any other error is thrown.
RECURSIVE ProbeFolderPath(_, _, _, _, _)
ProbeFolderPath(d, f, folderPath, finalPath, counter) ==
    LET code == MkdirCode(d, f, finalPath)
    IN  IF code = "OK" THEN [ok |-> TRUE, path |-> finalPath, dirs |-> d \cup {finalPath}]
        ELSE IF code = "EEXIST"
        THEN ProbeFolderPath(d, f, folderPath, NumberedFolder(folderPath, counter),
                             counter + 1)
        ELSE [ok |-> FALSE, path |-> finalPath, dirs |-> d]

getUniqueFolderPath(d, f, folderPath) ==
    ProbeFolderPath(d, f, folderPath, folderPath, FirstCounter)

(***************************************************************************)
(* routes/upload.js: helpers of the /init handler                          *)
(***************************************************************************)
IsDigit(c) == \E i \in 1..10 : DigitChars[i] = c

LowerChars == <<"a", "b", "c", "d", "e", "f", "g", "h", "i", "j", "k", "l", "m",
                "n", "o", "p", "q", "r", "s", "t", "u", "v", "w", "x", "y", "z">>
UpperChars == <<"A", "B", "C", "D", "E", "F", "G", "H", "I", "J", "K", "L", "M",
                "N", "O", "P", "Q", "R", "S", "T", "U", "V", "W", "X", "Y", "Z">>

\* Variant: the case of the letters is kept.
KeepCase(s) == s
\* String.prototype.toLowerCase, on the letters A to Z.
ToLowerCase(s) ==
    [i \in 1..Len(s) |->
        IF \E k \in 1..26 : UpperChars[k] = s[i]
        THEN LowerChars[CHOOSE k \in 1..26 : UpperChars[k] = s[i]]
        ELSE s[i]]

\* String.prototype.trim, on spaces.
RECURSIVE Trim(_)
Trim(s) ==
    IF Len(s) > 0 /\ s[1] = " " THEN Trim(Tail(s))
    ELSE IF Len(s) > 0 /\ s[Len(s)] = " " THEN Trim(Front(s))
    ELSE s

\* config.allowedExtensions from the items of ALLOWED_EXTENSIONS between its
\* commas: null when the variable is unset or empty.
ParseAllowedExtensions(items) ==
    [configured |-> items # <<>>,
     list |-> {ToLowerCase(Trim(items[i])) : i \in 1..Len(items)}]

\* Variant: every extension passes.
ExtensionAllowedAlways(allowedExtensions, safe) == TRUE
\* The extension check of the /init handler on the sanitized file name.
ExtensionAllowed(allowedExtensions, safe) ==
    LET parts == Split(safe, SLASH)
        base == IF Len(safe) > 0 /\ Last(safe) = SLASH
                THEN PathBasename(FilterNonEmpty(parts))
                ELSE PathBasename(parts)
        fileExt == ToLowerCase(PathExtname(base))
    IN  allowedExtensions.configured => fileExt \in allowedExtensions.list

LowerLetters ==
    {"a", "b", "c", "d", "e", "f", "g", "h", "i", "j", "k", "l", "m",
     "n", "o", "p", "q", "r", "s", "t", "u", "v", "w", "x", "y", "z"}

\* Variant: every batch id passes.
isValidBatchIdAlways(batchId) == TRUE
\* /^\d+-[a-z0-9]{9}$/.test(batchId)
isValidBatchId(batchId) ==
    /\ Len(batchId) >= 11
    /\ \A i \in 1..(Len(batchId) - 10) : IsDigit(batchId[i])
    /\ batchId[Len(batchId) - 9] = "-"
    /\ \A i \in (Len(batchId) - 8)..Len(batchId) :
           IsDigit(batchId[i]) \/ batchId[i] \in LowerLetters

\* `${Date.now()}-${crypto.randomBytes(4).toString('hex').substring(0, 9)}`
GeneratedBatchId(time, hex) ==
    NumStr(time) \o <<"-">> \o SubSeq(hex, 1, IF Len(hex) < 9 THEN Len(hex) ELSE 9)

\* .replace(/^(\.\.(\/|\\|$))+/, '')
RECURSIVE StripLeadingDotDot(_)
StripLeadingDotDot(s) ==
    IF Len(s) >= 2 /\ s[1] = DOT /\ s[2] = DOT
    THEN IF Len(s) = 2 THEN <<>>
         ELSE IF s[3] = SLASH \/ s[3] = BACKSLASH
         THEN StripLeadingDotDot(SubSeq(s, 4, Len(s)))
         ELSE s
    ELSE s

\* .replace(/\\/g, '/')
BackslashesToSlashes(s) == [i \in 1..Len(s) |-> IF s[i] = BACKSLASH THEN SLASH ELSE s[i]]

\* .replace(/^\/+/, '')
RECURSIVE StripLeadingSlashes(_)
StripLeadingSlashes(s) ==
    IF Len(s) > 0 /\ s[1] = SLASH THEN StripLeadingSlashes(Tail(s)) ELSE s

\* The sanitized file name of the /init handler.
safeFilename(filename) ==
    StripLeadingSlashes(BackslashesToSlashes(StripLeadingDotDot(PathNormalize(filename))))

(***************************************************************************)
(* Responses                                                               *)
(***************************************************************************)
NoPath == <<>>

Response(op, uploadId, status, error) ==
    [op |-> op, uploadId |-> uploadId, status |-> status, error |-> error,
     bytesReceived |-> -1, progress |-> -1, limit |-> -1, notified |-> "none",
     checked |-> -1, cleaned |-> -1, returned |-> "none"]

\* Variant: a notification that fails rejects the promise of the notifier.
sendNotificationThrows(appriseUrl, appriseOk) ==
    [settled |-> IF appriseUrl /\ ~appriseOk THEN "rejected" ELSE "resolved",
     log |-> IF ~appriseUrl THEN "none" ELSE IF appriseOk THEN "info" ELSE "error"]
\* The notifier: it returns at once when no Apprise URL is configured, and
\* catches and logs whatever fails while it sends (appriseOk is the outcome of
\* the directory scan and of the apprise process), so its promise resolves.
sendNotification(appriseUrl, appriseOk) ==
    [settled |-> "resolved",
     log |-> IF ~appriseUrl THEN "none" ELSE IF appriseOk THEN "info" ELSE "error"]

\* Variant: the percentage is cut off, not rounded.
ProgressTruncated(bytesReceived, fileSize) ==
    LET cut == (100 * bytesReceived) \div fileSize
    IN  IF cut < 100 THEN cut ELSE 100
\* Math.min(Math.round((bytesReceived / fileSize) * 100), 100), fileSize > 0.
\* Math.round rounds halves up.
Progress(bytesReceived, fileSize) ==
    LET rounded == (200 * bytesReceived + fileSize) \div (2 * fileSize)
    IN  IF rounded < 100 THEN rounded ELSE 100

\* Variant: the entry of a completed upload stays in the map.
FinishUploadKeeps(ups, uploadId) == ups
\* uploads.delete(uploadId) of a completed upload.
FinishUpload(ups, uploadId) == MapDelete(ups, uploadId)

(***************************************************************************)
(* POST /init                                                              *)
(***************************************************************************)
\* `${originalFolderName}-${batchId}`
MappingKey(originalFolderName, batchId) == originalFolderName \o <<"-">> \o batchId

\* Variant: the mapping is never found.
HasMappingNever(key) == FALSE
\* folderMappings.get(key) found a folder name.
HasMapping(key) == key \in DOMAIN folderMappings

\* The folder part of the handler: the directory calls, the folder mapping
\* and the path handed to getUniqueFilePath.
ResolveTarget(safe, batchId) ==
    LET pathParts == FilterNonEmpty(Split(safe, SLASH))
    IN  IF Len(pathParts) > 1
        THEN LET originalFolderName == pathParts[1]
                 folderPath == PathJoin(UploadDir, originalFolderName)
                 key == MappingKey(originalFolderName, batchId)
                 mapped == HasMapping(key)
                 m1 == MkdirRecursive(dirs, files, PathDirname(folderPath))
                 code == MkdirCode(m1.dirs, files, folderPath)
                 uq == getUniqueFolderPath(m1.dirs, files, folderPath)
                 folder ==
                     IF mapped
                     THEN [ok |-> TRUE, dirs |-> dirs, name |-> folderMappings[key]]
                     ELSE IF ~m1.ok
                     THEN [ok |-> FALSE, dirs |-> m1.dirs, name |-> <<>>]
                     ELSE IF code = "OK"
                     THEN [ok |-> TRUE, dirs |-> m1.dirs \cup {folderPath},
                           name |-> originalFolderName]
                     ELSE IF code = "EEXIST"
                     THEN [ok |-> uq.ok, dirs |-> uq.dirs, name |-> PathBasename(uq.path)]
                     ELSE [ok |-> FALSE, dirs |-> m1.dirs, name |-> <<>>]
                 filePath == PathJoinParts(UploadDir, [pathParts EXCEPT ![1] = folder.name])
                 m2 == MkdirRecursive(folder.dirs, files, PathDirname(filePath))
             IN  [ok |-> folder.ok /\ m2.ok,
                  dirs |-> IF folder.ok THEN m2.dirs ELSE folder.dirs,
                  mappings |-> IF folder.ok /\ ~mapped
                               THEN MapSet(folderMappings, key, folder.name)
                               ELSE folderMappings,
                  filePath |-> IF folder.ok THEN filePath ELSE NoPath,
                  parts |-> pathParts,
                  folder |-> originalFolderName,
                  chosen |-> folder.name]
        ELSE [ok |-> ~(Len(safe) > 0 /\ Last(safe) = SLASH),
              dirs |-> dirs,
              mappings |-> folderMappings,
              filePath |-> PathJoin(UploadDir, safe),
              parts |-> pathParts,
              folder |-> <<>>,
              chosen |-> <<>>]

\* Variant: no declared size is too large.
ExceedsLimitNever(size) == FALSE
\* size > maxSizeInBytes
ExceedsLimit(size) == size > config.maxFileSize

\* `${Date.now()}-...` unless the request names its batch.
BatchIdOf(header, hex) ==
    IF header # NoHeader THEN header ELSE GeneratedBatchId(now, hex)

InitUpload(filename, fileSize, header, hex, appriseOk) ==
    LET size == fileSize.n
        batchId == BatchIdOf(header, hex)
        uploadId == nextId
        target == ResolveTarget(safeFilename(filename), batchId)
        unique == getUniqueFilePath(target.dirs, files, target.filePath)
        reject(status, error) ==
            /\ resp' = Response("init", 0, status, error)
            /\ UNCHANGED <<uploads, folderMappings, batchActivity, uploadToBatch,
                           dirs, files, nextId>>
    IN  /\ UNCHANGED <<now, config>>
        /\ IF filename = <<>> THEN reject(400, "Missing filename")
           ELSE IF fileSize.kind = "missing" THEN reject(400, "Missing fileSize")
           ELSE IF fileSize.kind = "nan" \/ size < 0 THEN reject(400, "Invalid file size")
           ELSE IF ExceedsLimit(size)
           THEN /\ resp' = [Response("init", 0, 413, "File too large")
                               EXCEPT !.limit = config.maxFileSize]
                /\ UNCHANGED <<uploads, folderMappings, batchActivity, uploadToBatch,
                               dirs, files, nextId>>
           ELSE IF header # NoHeader /\ ~isValidBatchId(batchId)
           THEN reject(400, "Invalid batch ID format")
           ELSE IF ~ExtensionAllowed(config.allowedExtensions, safeFilename(filename))
           THEN /\ batchActivity' = MapSet(batchActivity, batchId, now)
                /\ resp' = Response("init", 0, 400, "File type not allowed")
                /\ UNCHANGED <<uploads, folderMappings, uploadToBatch, dirs, files,
                               nextId>>
           ELSE /\ batchActivity' = MapSet(batchActivity, batchId, now)
                /\ folderMappings' = target.mappings
                /\ IF target.ok /\ unique.ok
                   THEN LET created == MapSet(uploads, uploadId,
                                          [filePath |-> unique.path, fileSize |-> size,
                                           bytesReceived |-> 0, writeStream |-> "open"])
                            notification == sendNotification(config.appriseUrl, appriseOk)
                        IN  /\ nextId' = nextId + 1
                            /\ dirs' = target.dirs
                            /\ uploadToBatch' = MapSet(uploadToBatch, uploadId, batchId)
                            /\ IF size # 0
                               THEN /\ files' = MapSet(files, unique.path, <<>>)
                                    /\ uploads' = created
                                    /\ resp' = Response("init", uploadId, 200, "")
                               ELSE IF notification.settled = "resolved"
                               THEN /\ files' = MapSet(files, unique.path, <<>>)
                                    /\ uploads' = FinishUpload(created, uploadId)
                                    /\ resp' = [Response("init", uploadId, 200, "")
                                                   EXCEPT !.notified = notification.log]
                               ELSE /\ files' = MapDelete(files, unique.path)
                                    /\ uploads' = FinishUpload(created, uploadId)
                                    /\ resp' = [Response("init", 0, 500,
                                                         "Failed to initialize upload")
                                                   EXCEPT !.notified = notification.log]
                   ELSE /\ dirs' = target.dirs
                        /\ resp' = Response("init", 0, 500, "Failed to initialize upload")
                        /\ UNCHANGED <<uploads, uploadToBatch, files, nextId>>

(***************************************************************************)
(* POST /init, one step per await.  Other handlers run while the handler   *)
(* waits for a file system call.                                           *)
(***************************************************************************)
\* The locals of the handler when it reaches its first await: the folder
\* mapping has been looked up.
InitLocals(size, header, batchId, safe) ==
    LET pathParts == FilterNonEmpty(Split(safe, SLASH))
        inFolder == Len(pathParts) > 1
        originalFolderName == IF inFolder THEN pathParts[1] ELSE <<>>
        key == MappingKey(originalFolderName, batchId)
        mapped == inFolder /\ HasMapping(key)
        newFolderName == IF mapped THEN folderMappings[key] ELSE <<>>
        filePath == IF ~inFolder THEN PathJoin(UploadDir, safe)
                    ELSE IF mapped
                    THEN PathJoinParts(UploadDir, [pathParts EXCEPT ![1] = newFolderName])
                    ELSE NoPath
    IN  [pc |-> IF ~inFolder THEN "open"
                ELSE IF mapped THEN "mkdirFileDir" ELSE "mkdirParent",
         size |-> size, header |-> header, batchId |-> batchId, safe |-> safe,
         pathParts |-> pathParts, folder |-> originalFolderName,
         folderPath |-> PathJoin(UploadDir, originalFolderName), key |-> key,
         chosen |-> newFolderName, filePath |-> filePath, finalPath |-> filePath,
         counter |-> FirstCounter]

InitSuspend(uploadId, locals) ==
    inflight' = [inflight EXCEPT !.init = MapSet(@, uploadId, locals)]

InitReturn(uploadId) ==
    inflight' = [inflight EXCEPT !.init = MapDelete(@, uploadId)]

\* The outer catch: 500.
InitFailed(uploadId) ==
    /\ resp' = Response("init", 0, 500, "Failed to initialize upload")
    /\ InitReturn(uploadId)

\* folderMappings.set(key, newFolderName), then the path of the file in it.
InitFolderChosen(uploadId, locals, newFolderName) ==
    LET filePath == PathJoinParts(UploadDir,
                                  [locals.pathParts EXCEPT ![1] = newFolderName])
    IN  /\ folderMappings' = MapSet(folderMappings, locals.key, newFolderName)
        /\ InitSuspend(uploadId, [locals EXCEPT !.pc = "mkdirFileDir",
                                                !.chosen = newFolderName,
                                                !.filePath = filePath,
                                                !.finalPath = filePath])

\* From the request to the first await.
InitBegin(filename, fileSize, header, hex) ==
    LET size == fileSize.n
        batchId == BatchIdOf(header, hex)
        uploadId == nextId
        reject(status, error) ==
            /\ resp' = Response("init", 0, status, error)
            /\ UNCHANGED <<batchActivity, nextId, inflight>>
    IN  /\ UNCHANGED <<uploads, folderMappings, uploadToBatch, dirs, files, now, config>>
        /\ IF filename = <<>> THEN reject(400, "Missing filename")
           ELSE IF fileSize.kind = "missing" THEN reject(400, "Missing fileSize")
           ELSE IF fileSize.kind = "nan" \/ size < 0 THEN reject(400, "Invalid file size")
           ELSE IF ExceedsLimit(size)
           THEN /\ resp' = [Response("init", 0, 413, "File too large")
                               EXCEPT !.limit = config.maxFileSize]
                /\ UNCHANGED <<batchActivity, nextId, inflight>>
           ELSE IF header # NoHeader /\ ~isValidBatchId(batchId)
           THEN reject(400, "Invalid batch ID format")
           ELSE IF ~ExtensionAllowed(config.allowedExtensions, safeFilename(filename))
           THEN /\ batchActivity' = MapSet(batchActivity, batchId, now)
                /\ resp' = Response("init", 0, 400, "File type not allowed")
                /\ UNCHANGED <<nextId, inflight>>
           ELSE /\ batchActivity' = MapSet(batchActivity, batchId, now)
                /\ nextId' = nextId + 1
                /\ InitSuspend(uploadId,
                               InitLocals(size, header, batchId, safeFilename(filename)))
                /\ UNCHANGED resp

\* await fs.promises.mkdir(path.dirname(folderPath), { recursive: true })
InitMkdirParent(uploadId) ==
    LET locals == inflight.init[uploadId]
        made == MkdirRecursive(dirs, files, PathDirname(locals.folderPath))
    IN  /\ locals.pc = "mkdirParent"
        /\ dirs' = made.dirs
        /\ IF made.ok
           THEN InitSuspend(uploadId, [locals EXCEPT !.pc = "mkdirFolder"])
                /\ UNCHANGED resp
           ELSE InitFailed(uploadId)
        /\ UNCHANGED <<uploads, folderMappings, batchActivity, uploadToBatch, files,
                       now, config, nextId>>

\* await fs.promises.mkdir(folderPath, { recursive: false })
InitMkdirFolder(uploadId) ==
    LET locals == inflight.init[uploadId]
        code == MkdirCode(dirs, files, locals.folderPath)
    IN  /\ locals.pc = "mkdirFolder"
        /\ IF code = "OK"
           THEN /\ dirs' = dirs \cup {locals.folderPath}
                /\ InitFolderChosen(uploadId, locals, locals.folder)
                /\ UNCHANGED resp
           ELSE IF code = "EEXIST"
           THEN /\ InitSuspend(uploadId, [locals EXCEPT !.pc = "uniqueFolder",
                                                        !.finalPath = locals.folderPath,
                                                        !.counter = FirstCounter])
                /\ UNCHANGED <<dirs, folderMappings, resp>>
           ELSE /\ InitFailed(uploadId)
                /\ UNCHANGED <<dirs, folderMappings>>
        /\ UNCHANGED <<uploads, batchActivity, uploadToBatch, files, now, config, nextId>>

\* One turn of the loop of getUniqueFolderPath.
InitUniqueFolder(uploadId) ==
    LET locals == inflight.init[uploadId]
        code == MkdirCode(dirs, files, locals.finalPath)
    IN  /\ locals.pc = "uniqueFolder"
        /\ IF code = "OK"
           THEN /\ dirs' = dirs \cup {locals.finalPath}
                /\ InitFolderChosen(uploadId, locals, PathBasename(locals.finalPath))
                /\ UNCHANGED resp
           ELSE IF code = "EEXIST"
           THEN /\ InitSuspend(uploadId,
                       [locals EXCEPT !.finalPath = NumberedFolder(locals.folderPath,
                                                                   locals.counter),
                                      !.counter = locals.counter + 1])
                /\ UNCHANGED <<dirs, folderMappings, resp>>
           ELSE /\ InitFailed(uploadId)
                /\ UNCHANGED <<dirs, folderMappings>>
        /\ UNCHANGED <<uploads, batchActivity, uploadToBatch, files, now, config, nextId>>

\* await fs.promises.mkdir(path.dirname(filePath), { recursive: true })
InitMkdirFileDir(uploadId) ==
    LET locals == inflight.init[uploadId]
        made == MkdirRecursive(dirs, files, PathDirname(locals.filePath))
    IN  /\ locals.pc = "mkdirFileDir"
        /\ dirs' = made.dirs
        /\ IF made.ok
           THEN InitSuspend(uploadId, [locals EXCEPT !.pc = "open"])
                /\ UNCHANGED resp
           ELSE InitFailed(uploadId)
        /\ UNCHANGED <<uploads, folderMappings, batchActivity, uploadToBatch, files,
                       now, config, nextId>>

\* One turn of the loop of getUniqueFilePath, and on success the rest of the
\* handler.
InitOpen(uploadId, appriseOk) ==
    LET locals == inflight.init[uploadId]
        code == IF Len(locals.safe) > 0 /\ Last(locals.safe) = SLASH THEN "EISDIR"
                ELSE OpenWxCode(dirs, files, locals.finalPath)
        dir == PathDirname(locals.filePath)
        ext == PathExtname(PathBasename(locals.filePath))
        baseName == PathBasenameNoExt(locals.filePath)
        created == MapSet(uploads, uploadId,
                          [filePath |-> locals.finalPath, fileSize |-> locals.size,
                           bytesReceived |-> 0, writeStream |-> "open"])
        notification == sendNotification(config.appriseUrl, appriseOk)
    IN  /\ locals.pc = "open"
        /\ IF code = "OK"
           THEN /\ uploadToBatch' = MapSet(uploadToBatch, uploadId, locals.batchId)
                /\ InitReturn(uploadId)
                /\ IF locals.size # 0
                   THEN /\ files' = MapSet(files, locals.finalPath, <<>>)
                        /\ uploads' = created
                        /\ resp' = Response("init", uploadId, 200, "")
                   ELSE IF notification.settled = "resolved"
                   THEN /\ files' = MapSet(files, locals.finalPath, <<>>)
                        /\ uploads' = FinishUpload(created, uploadId)
                        /\ resp' = [Response("init", uploadId, 200, "")
                                       EXCEPT !.notified = notification.log]
                   ELSE /\ files' = MapDelete(files, locals.finalPath)
                        /\ uploads' = FinishUpload(created, uploadId)
                        /\ resp' = [Response("init", 0, 500, "Failed to initialize upload")
                                       EXCEPT !.notified = notification.log]
           ELSE IF code = "EEXIST"
           THEN /\ InitSuspend(uploadId,
                       [locals EXCEPT !.finalPath =
                                          Append(dir, NumberedName(baseName, locals.counter, ext)),
                                      !.counter = locals.counter + 1])
                /\ UNCHANGED <<uploads, uploadToBatch, files, resp>>
           ELSE /\ InitFailed(uploadId)
                /\ UNCHANGED <<uploads, uploadToBatch, files>>
        /\ UNCHANGED <<folderMappings, batchActivity, dirs, now, config, nextId>>

(***************************************************************************)
(* POST /chunk/:uploadId                                                   *)
(***************************************************************************)
\* Variant: the file stays where it is.
UnlinkKeeps(f, filePath, unlinkOk) == f
\* fs.promises.unlink(filePath); a failure is logged and ignored.
Unlink(f, filePath, unlinkOk) ==
    IF unlinkOk /\ filePath \in DOMAIN f THEN MapDelete(f, filePath) ELSE f

\* Variant: every write starts at the beginning of the file.
WriteToFileFromStart(f, filePath, body) ==
    IF filePath \in DOMAIN f THEN [f EXCEPT ![filePath] = body] ELSE f
\* writeStream.write(buffer, callback): the bytes reach the file the stream
\* was opened on, if it is still linked.
WriteToFile(f, filePath, body) ==
    IF filePath \in DOMAIN f THEN [f EXCEPT ![filePath] = @ \o body] ELSE f

\* Variant: complete only once more than the declared size has arrived.
IsCompleteBeyond(bytesReceived, fileSize) == bytesReceived > fileSize
\* Variant: an unknown upload is answered like a failed write.
UploadFailed(uploadId) == Response("chunk", uploadId, 500, "Failed to process chunk")
\* res.status(404).json({ error: 'Upload not found' })
UploadNotFound(uploadId) == Response("chunk", uploadId, 404, "Upload not found")

\* The upload is complete.
IsComplete(bytesReceived, fileSize) == bytesReceived >= fileSize

\* Variant: the session of an upload whose stream could not be ended is
\* deleted.
AfterFailedEndDrops(ups, uploadId, bytesReceived) == MapDelete(ups, uploadId)
\* The catch of the chunk handler deletes nothing: the entry stays as the
\* failed end left it, with the chunk counted and the stream destroyed.
AfterFailedEnd(ups, uploadId, bytesReceived) ==
    [ups EXCEPT ![uploadId].bytesReceived = bytesReceived,
                ![uploadId].writeStream = "destroyed"]

\* writeOk and endOk are the outcomes of the stream's write and end calls: an
\* I/O error destroys the stream, and a stream that is not open fails both.
\* appriseOk is the outcome of the notification of a completed upload.
AppendChunk(uploadId, body, header, writeOk, endOk, appriseOk) ==
    IF uploadId \notin DOMAIN uploads
    THEN /\ resp' = UploadNotFound(uploadId)
         /\ UNCHANGED <<uploads, folderMappings, batchActivity, uploadToBatch,
                        dirs, files, now, config, nextId>>
    ELSE LET upload == uploads[uploadId]
             chunkSize == Len(body)
             written == upload.writeStream = "open" /\ writeOk
             bytesReceived == upload.bytesReceived + chunkSize
             progress == Progress(bytesReceived, upload.fileSize)
             failed == Response("chunk", uploadId, 500, "Failed to process chunk")
             notification == sendNotification(config.appriseUrl, appriseOk)
         IN  /\ batchActivity' =
                   IF header # NoHeader /\ isValidBatchId(header)
                   THEN MapSet(batchActivity, header, now)
                   ELSE batchActivity
             /\ UNCHANGED <<folderMappings, uploadToBatch, dirs, now, config, nextId>>
             /\ IF ~written
                THEN /\ uploads' = [uploads EXCEPT ![uploadId].writeStream =
                                       IF @ = "open" THEN "destroyed" ELSE @]
                     /\ resp' = failed
                     /\ UNCHANGED files
                ELSE /\ files' = WriteToFile(files, upload.filePath, body)
                     /\ IF IsComplete(bytesReceived, upload.fileSize)
                        THEN IF endOk
                             THEN /\ uploads' = FinishUpload(uploads, uploadId)
                                  /\ resp' =
                                       IF notification.settled = "resolved"
                                       THEN [Response("chunk", uploadId, 200, "")
                                                EXCEPT !.bytesReceived = bytesReceived,
                                                       !.progress = progress,
                                                       !.notified = notification.log]
                                       ELSE [failed EXCEPT !.notified = notification.log]
                             ELSE /\ uploads' = AfterFailedEnd(uploads, uploadId,
                                                                 bytesReceived)
                                  /\ resp' = failed
                        ELSE /\ uploads' = [uploads EXCEPT
                                               ![uploadId].bytesReceived = bytesReceived]
                             /\ resp' = [Response("chunk", uploadId, 200, "")
                                            EXCEPT !.bytesReceived = bytesReceived,
                                                   !.progress = progress]

(***************************************************************************)
(* POST /chunk/:uploadId, one step per await.  The handler keeps its        *)
(* reference to the upload entry when the entry is deleted from the map.   *)
(***************************************************************************)
ChunkSuspend(uploadId, locals) ==
    inflight' = [inflight EXCEPT !.chunk = MapSet(@, uploadId, locals)]

ChunkReturn(uploadId) ==
    inflight' = [inflight EXCEPT !.chunk = MapDelete(@, uploadId)]

\* The state of upload.writeStream; the stream of an entry that was deleted
\* from the map has been ended by the handler that deleted it.
StreamOf(uploadId) ==
    IF uploadId \in DOMAIN uploads THEN uploads[uploadId].writeStream ELSE "ended"

\* The fields of the entry change, in the map too if the entry is still there.
UpdateEntry(uploadId, bytesReceived, writeStream) ==
    uploads' = IF uploadId \in DOMAIN uploads
               THEN [uploads EXCEPT ![uploadId].bytesReceived = bytesReceived,
                                    ![uploadId].writeStream = writeStream]
               ELSE uploads

\* From the request to the await of the write: the write is queued on the
\* stream if the stream is open, and fails if it was ended or destroyed.
ChunkBegin(uploadId, body, header) ==
    IF uploadId \notin DOMAIN uploads
    THEN /\ resp' = UploadNotFound(uploadId)
         /\ UNCHANGED <<uploads, folderMappings, batchActivity, uploadToBatch,
                        dirs, files, now, config, nextId, inflight>>
    ELSE /\ batchActivity' =
               IF header # NoHeader /\ isValidBatchId(header)
               THEN MapSet(batchActivity, header, now)
               ELSE batchActivity
         /\ ChunkSuspend(uploadId,
                         [pc |-> "write", body |-> body, upload |-> uploads[uploadId],
                          queued |-> uploads[uploadId].writeStream = "open"])
         /\ UNCHANGED <<uploads, folderMappings, uploadToBatch, dirs, files, now,
                        config, nextId, resp>>

\* The callback of the write, and the handler up to its next await or its
\* response.  A queued write is flushed before the stream ends.
ChunkWritten(uploadId, writeOk) ==
    LET locals == inflight.chunk[uploadId]
        upload == locals.upload
        bytesReceived == upload.bytesReceived + Len(locals.body)
        progress == Progress(bytesReceived, upload.fileSize)
    IN  /\ locals.pc = "write"
        /\ UNCHANGED <<folderMappings, batchActivity, uploadToBatch, dirs, now,
                       config, nextId>>
        /\ IF ~(locals.queued /\ writeOk)
           THEN /\ UpdateEntry(uploadId, upload.bytesReceived,
                               IF StreamOf(uploadId) = "open" THEN "destroyed"
                               ELSE StreamOf(uploadId))
                /\ resp' = Response("chunk", uploadId, 500, "Failed to process chunk")
                /\ ChunkReturn(uploadId)
                /\ UNCHANGED files
           ELSE /\ files' = WriteToFile(files, upload.filePath, locals.body)
                /\ IF IsComplete(bytesReceived, upload.fileSize)
                   THEN /\ UpdateEntry(uploadId, bytesReceived,
                                       IF StreamOf(uploadId) = "open" THEN "ended"
                                       ELSE StreamOf(uploadId))
                        /\ ChunkSuspend(uploadId,
                               [locals EXCEPT !.pc = "end",
                                              !.upload.bytesReceived = bytesReceived,
                                              !.queued = StreamOf(uploadId) # "destroyed"])
                        /\ UNCHANGED resp
                   ELSE /\ UpdateEntry(uploadId, bytesReceived, StreamOf(uploadId))
                        /\ resp' = [Response("chunk", uploadId, 200, "")
                                       EXCEPT !.bytesReceived = bytesReceived,
                                              !.progress = progress]
                        /\ ChunkReturn(uploadId)

\* The callback of writeStream.end, and the rest of the handler.
ChunkEnded(uploadId, endOk, appriseOk) ==
    LET locals == inflight.chunk[uploadId]
        upload == locals.upload
        notification == sendNotification(config.appriseUrl, appriseOk)
    IN  /\ locals.pc = "end"
        /\ UNCHANGED <<folderMappings, batchActivity, uploadToBatch, dirs, files, now,
                       config, nextId>>
        /\ ChunkReturn(uploadId)
        /\ IF locals.queued /\ endOk
           THEN /\ uploads' = FinishUpload(uploads, uploadId)
                /\ resp' =
                     IF notification.settled = "resolved"
                     THEN [Response("chunk", uploadId, 200, "")
                              EXCEPT !.bytesReceived = upload.bytesReceived,
                                     !.progress = Progress(upload.bytesReceived,
                                                           upload.fileSize),
                                     !.notified = notification.log]
                     ELSE [Response("chunk", uploadId, 500, "Failed to process chunk")
                              EXCEPT !.notified = notification.log]
           ELSE /\ UpdateEntry(uploadId, upload.bytesReceived, "destroyed")
                /\ resp' = Response("chunk", uploadId, 500, "Failed to process chunk")

(***************************************************************************)
(* POST /chunk/:uploadId, several requests for one upload side by side.    *)
(* The handlers hold the same upload entry and write to the same stream.   *)
(* The stream has one write under way and buffers the ones that arrive     *)
(* meanwhile; when the write is done it starts all the buffered ones       *)
(* together.  The continuations of the handlers whose callbacks were       *)
(* called in one event run one after the other before the stream's         *)
(* deferred finish and before the next event.                              *)
(***************************************************************************)
Count(m, k) == IF k \in DOMAIN m THEN m[k] ELSE 0

\* upload.writeStream: open, ended (end() was called), finished (the callbacks
\* of end() were called) or destroyed.
StreamState(uploadId) ==
    IF uploadId \in parallel.finished THEN "finished"
    ELSE IF uploadId \in DOMAIN uploads THEN uploads[uploadId].writeStream
    ELSE "finished"

\* The entry the handlers refer to, in the map or deleted from it.
SharedEntry(uploadId) ==
    IF uploadId \in DOMAIN uploads THEN uploads[uploadId]
    ELSE parallel.detached[uploadId]

OfUpload(requests, uploadId) ==
    SelectSeq(requests, LAMBDA r : parallel.chunk[r].uploadId = uploadId)
NotOfUpload(requests, uploadId) ==
    SelectSeq(requests, LAMBDA r : parallel.chunk[r].uploadId # uploadId)

RECURSIVE BodiesOf(_)
BodiesOf(requests) ==
    IF requests = <<>> THEN <<>>
    ELSE parallel.chunk[Head(requests)].body \o BodiesOf(Tail(requests))

\* end() was called on a stream with no write queued: finish is emitted on
\* the next tick, before any other event.
FinishDue(uploadId) ==
    /\ uploadId \in DOMAIN uploads
    /\ StreamState(uploadId) = "ended"
    /\ OfUpload(parallel.writing, uploadId) = <<>>
    /\ OfUpload(parallel.pending, uploadId) = <<>>

\* The event loop takes the next event.
ParallelQuiet ==
    /\ parallel.microtasks = <<>>
    /\ \A u \in DOMAIN uploads : ~FinishDue(u)

\* The handler of request r leaves with its response.
ParallelReturn(p, r) == [p EXCEPT !.chunk = MapDelete(@, r)]

\* From the request to the await of the write.  A write on a stream that is
\* not open fails on the next tick, and a write after end() destroys the
\* stream.
ParallelBegin(uploadId, body, header) ==
    LET r == parallel.next
    IN  /\ ParallelQuiet
        /\ UNCHANGED <<folderMappings, uploadToBatch, dirs, files, now, config, nextId>>
        /\ IF uploadId \notin DOMAIN uploads
           THEN /\ resp' = UploadNotFound(uploadId)
                /\ parallel' = [parallel EXCEPT !.next = r + 1]
                /\ UNCHANGED <<uploads, batchActivity>>
           ELSE /\ batchActivity' =
                      IF header # NoHeader /\ isValidBatchId(header)
                      THEN MapSet(batchActivity, header, now)
                      ELSE batchActivity
                /\ IF uploads[uploadId].writeStream = "open"
                   THEN /\ parallel' =
                              [parallel EXCEPT
                                  !.next = r + 1,
                                  !.chunk = MapSet(@, r, [uploadId |-> uploadId,
                                                          body |-> body,
                                                          pc |-> "write",
                                                          progress |-> -1]),
                                  !.writing =
                                      IF OfUpload(@, uploadId) = <<>>
                                      THEN Append(@, r) ELSE @,
                                  !.pending =
                                      IF OfUpload(parallel.writing, uploadId) = <<>>
                                      THEN @ ELSE Append(@, r)]
                        /\ UNCHANGED <<uploads, resp>>
                   ELSE /\ uploads' = [uploads EXCEPT ![uploadId].writeStream = "destroyed"]
                        /\ resp' = Response("chunk", uploadId, 500,
                                            "Failed to process chunk")
                        /\ parallel' = [parallel EXCEPT !.next = r + 1]

\* The stream has completed the writes it had under way and calls their
\* callbacks; the buffered writes are started together.  A stream that was
\* ended and has nothing left to write emits finish at once, or fails the
\* callbacks of end() if it was destroyed.
ParallelFlush(uploadId) ==
    LET batch == OfUpload(parallel.writing, uploadId)
        buffered == OfUpload(parallel.pending, uploadId)
        waiting == OfUpload(parallel.enders, uploadId)
        state == StreamState(uploadId)
        settles == state # "open" /\ buffered = <<>>
    IN  /\ ParallelQuiet
        /\ uploadId \in DOMAIN uploads
        /\ batch # <<>>
        /\ files' = WriteToFile(files, uploads[uploadId].filePath, BodiesOf(batch))
        /\ parallel' =
              [parallel EXCEPT
                  !.writing = NotOfUpload(@, uploadId) \o buffered,
                  !.pending = NotOfUpload(@, uploadId),
                  !.microtasks = IF settles THEN batch \o waiting ELSE batch,
                  !.enders = IF settles THEN NotOfUpload(@, uploadId) ELSE @,
                  !.finished = IF settles /\ state = "ended"
                               THEN @ \cup {uploadId} ELSE @]
        /\ UNCHANGED <<uploads, folderMappings, batchActivity, uploadToBatch, dirs,
                       now, config, nextId, resp>>

\* The deferred finish of a stream that was ended with nothing queued.
ParallelFinish(uploadId) ==
    /\ parallel.microtasks = <<>>
    /\ FinishDue(uploadId)
    /\ parallel' = [parallel EXCEPT
                       !.finished = @ \cup {uploadId},
                       !.microtasks = OfUpload(parallel.enders, uploadId),
                       !.enders = NotOfUpload(@, uploadId)]
    /\ UNCHANGED <<uploads, folderMappings, batchActivity, uploadToBatch, dirs,
                   files, now, config, nextId, resp>>

\* What a handler answers once the notifier has returned.
ParallelAnswer(r, log) ==
    LET locals == parallel.chunk[r]
    IN  [Response("chunk", locals.uploadId, 200, "")
            EXCEPT !.bytesReceived = SharedEntry(locals.uploadId).bytesReceived,
                   !.progress = locals.progress,
                   !.notified = log]

\* The continuation of the handler at the head of the microtask queue, up to
\* its next await or its response.
ParallelContinue ==
    LET r == Head(parallel.microtasks)
        locals == parallel.chunk[r]
        uploadId == locals.uploadId
        state == StreamState(uploadId)
        rest == [parallel EXCEPT !.microtasks = Tail(@)]
        failed == Response("chunk", uploadId, 500, "Failed to process chunk")
    IN  /\ parallel.microtasks # <<>>
        /\ UNCHANGED <<folderMappings, batchActivity, uploadToBatch, dirs, files, now,
                       config, nextId>>
        /\ CASE locals.pc = "write" ->
                  LET bytesReceived == uploads[uploadId].bytesReceived + Len(locals.body)
                      progress == Progress(bytesReceived, uploads[uploadId].fileSize)
                      complete == IsComplete(bytesReceived, uploads[uploadId].fileSize)
                  IN  /\ uploads' = [uploads EXCEPT
                             ![uploadId].bytesReceived = bytesReceived,
                             ![uploadId].writeStream =
                                 IF complete /\ state = "open" THEN "ended" ELSE @]
                      /\ IF ~complete
                         THEN /\ resp' = [Response("chunk", uploadId, 200, "")
                                             EXCEPT !.bytesReceived = bytesReceived,
                                                    !.progress = progress]
                              /\ parallel' = ParallelReturn(rest, r)
                         ELSE IF state \in {"open", "ended"}
                         THEN /\ parallel' = [rest EXCEPT !.chunk[r].pc = "end",
                                                          !.chunk[r].progress = progress,
                                                          !.enders = Append(@, r)]
                              /\ UNCHANGED resp
                         ELSE /\ resp' = failed
                              /\ parallel' = ParallelReturn(rest, r)
             [] locals.pc = "end" ->
                  IF state = "destroyed"
                  THEN /\ resp' = failed
                       /\ parallel' = ParallelReturn(rest, r)
                       /\ UNCHANGED uploads
                  ELSE /\ uploads' = FinishUpload(uploads, uploadId)
                       /\ parallel' =
                             [rest EXCEPT
                                 !.chunk[r].pc = "notify",
                                 !.detached = IF uploadId \in DOMAIN uploads
                                              THEN MapSet(@, uploadId, uploads[uploadId])
                                              ELSE @,
                                 !.ended = MapSet(@, uploadId, Count(@, uploadId) + 1),
                                 !.notified = MapSet(@, uploadId, Count(@, uploadId) + 1),
                                 !.microtasks = IF config.appriseUrl THEN @
                                                ELSE Append(@, r)]
                       /\ UNCHANGED resp
             [] locals.pc = "notify" ->
                  /\ resp' = ParallelAnswer(r, sendNotification(FALSE, TRUE).log)
                  /\ parallel' = ParallelReturn(rest, r)
                  /\ UNCHANGED uploads

\* The notifier of request r returns after it ran apprise.
ParallelNotified(r, appriseOk) ==
    /\ ParallelQuiet
    /\ r \in DOMAIN parallel.chunk
    /\ parallel.chunk[r].pc = "notify"
    /\ resp' = ParallelAnswer(r, sendNotification(config.appriseUrl, appriseOk).log)
    /\ parallel' = ParallelReturn(parallel, r)
    /\ UNCHANGED <<uploads, folderMappings, batchActivity, uploadToBatch, dirs, files,
                   now, config, nextId>>

(***************************************************************************)
(* POST /cancel/:uploadId                                                  *)
(***************************************************************************)
\* Variant: the cancellation of an unknown upload is answered with not-found.
UploadCancelledIfFound(uploadId) ==
    Response("cancel", uploadId, IF uploadId \in DOMAIN uploads THEN 200 ELSE 404, "")
\* res.json({ message: 'Upload cancelled' })
UploadCancelled(uploadId) == Response("cancel", uploadId, 200, "")

CancelUpload(uploadId, unlinkOk) ==
    /\ resp' = UploadCancelled(uploadId)
    /\ UNCHANGED <<folderMappings, batchActivity, dirs, now, config, nextId>>
    /\ IF uploadId \in DOMAIN uploads
       THEN /\ files' = Unlink(files, uploads[uploadId].filePath, unlinkOk)
            /\ uploads' = MapDelete(uploads, uploadId)
            /\ uploadToBatch' = MapDelete(uploadToBatch, uploadId)
       ELSE UNCHANGED <<uploads, uploadToBatch, files>>

\* POST /cancel/:uploadId, one step per await.  From the request to the await
\* of the unlink: the stream is ended, and the entry stays in the map until the
\* unlink has settled.
CancelBegin(uploadId) ==
    /\ uploadId \notin DOMAIN inflight.cancel
    /\ UNCHANGED <<folderMappings, batchActivity, uploadToBatch, dirs, files, now,
                   config, nextId>>
    /\ IF uploadId \in DOMAIN uploads
       THEN /\ UpdateEntry(uploadId, uploads[uploadId].bytesReceived,
                           IF StreamOf(uploadId) = "open" THEN "ended"
                           ELSE StreamOf(uploadId))
            /\ inflight' = [inflight EXCEPT !.cancel =
                                MapSet(@, uploadId, [upload |-> uploads[uploadId]])]
            /\ UNCHANGED resp
       ELSE /\ resp' = UploadCancelled(uploadId)
            /\ UNCHANGED <<uploads, inflight>>

\* The unlink has settled: the rest of the handler.
CancelUnlinked(uploadId, unlinkOk) ==
    LET upload == inflight.cancel[uploadId].upload
    IN  /\ files' = Unlink(files, upload.filePath, unlinkOk)
        /\ uploads' = MapDelete(uploads, uploadId)
        /\ uploadToBatch' = MapDelete(uploadToBatch, uploadId)
        /\ resp' = UploadCancelled(uploadId)
        /\ inflight' = [inflight EXCEPT !.cancel = MapDelete(@, uploadId)]
        /\ UNCHANGED <<folderMappings, batchActivity, dirs, now, config, nextId>>

(***************************************************************************)
(* app.use('/api/upload', requirePin(config.pin), initUploadLimiter,       *)
(* uploadRouter): the middleware in front of the three routes              *)
(***************************************************************************)
\* A cookie or a header of a request: not set, or set to a string.
NoCredential == [set |-> FALSE, value |-> <<>>]
Credential(value) == [set |-> TRUE, value |-> value]

\* config.pin is null: no PIN is asked for.
NoPin == <<>>

\* validatePin: the digits of DUMBDROP_PIN, if there are 4 to 10 of them.
validatePin(pin) ==
    LET cleanPin == SelectSeq(pin, IsDigit)
    IN  IF Len(cleanPin) >= 4 /\ Len(cleanPin) <= 10 THEN cleanPin ELSE NoPin

\* String.prototype.padEnd(targetLength), with spaces.
PadEnd(s, targetLength) == s \o [i \in 1..(targetLength - Len(s)) |-> " "]

\* crypto.timingSafeEqual throws on buffers of different lengths.
timingSafeEqual(a, b) == [threw |-> Len(a) # Len(b), equal |-> a = b]

\* safeCompare(a, b), b a string: both are padded to 32 characters before
\* they are compared, and an exception counts as a mismatch.
safeCompare(a, b) ==
    IF ~a.set THEN FALSE
    ELSE LET compared == timingSafeEqual(PadEnd(a.value, 32), PadEnd(b, 32))
         IN  ~compared.threw /\ compared.equal

\* safeCompare(a, b) where b may be something else than a string, too.
safeCompareValues(a, b) == b.set /\ safeCompare(a, b.value)

\* A caller hands the two values of the request to safeCompare and keeps what
\* it returns.
CompareCall ==
    /\ resp' = [Response("safeCompare", 0, 0, "")
                   EXCEPT !.returned = IF safeCompareValues(request.cookie, request.xpin)
                                       THEN "true" ELSE "false"]
    /\ UNCHANGED <<uploads, folderMappings, batchActivity, uploadToBatch, dirs, files,
                   now, config, nextId, client, inflight, edge, aside>>

\* requirePin(PIN): whether next() is called, and whether the response sets
\* the cookie.
requirePin(PIN, cookiePin, headerPin) ==
    IF PIN = NoPin THEN [next |-> TRUE, setCookie |-> FALSE]
    ELSE IF cookiePin.set /\ cookiePin.value # <<>> /\ safeCompare(cookiePin, PIN)
    THEN [next |-> TRUE, setCookie |-> FALSE]
    ELSE IF headerPin.set /\ headerPin.value # <<>> /\ safeCompare(headerPin, PIN)
    THEN [next |-> TRUE, setCookie |-> TRUE]
    ELSE [next |-> FALSE, setCookie |-> FALSE]

\* max: 30 of initUploadLimiter.
LimiterMax == 30

\* skip: (req) => req.headers['x-batch-id'] !== undefined
skip(header) == header # NoHeader

\* initUploadLimiter: a request that is not skipped is counted under the key
\* of its client, and passes while the count is at most max.  Counts above
\* max + 1 are kept as max + 1.
initUploadLimiter(store, key, header) ==
    IF skip(header) THEN [next |-> TRUE, store |-> store]
    ELSE LET hits == IF key \in DOMAIN store THEN store[key] + 1 ELSE 1
         IN  [next |-> hits <= LimiterMax,
              store |-> MapSet(store, key,
                               IF hits > LimiterMax THEN LimiterMax + 1 ELSE hits)]

\* No request was seen yet.  through counts the init requests of the current
\* window of the limiter that were passed on to the init handler.
NoRequest ==
    [op |-> "none", key |-> "", cookie |-> NoCredential, xpin |-> NoCredential,
     header |-> NoHeader, reached |-> FALSE, setCookie |-> FALSE, through |-> 0]

\* A request to one of the three routes passes the middleware in the order
\* of app.use; handler is what the route does with it.
UploadRoute(req, handler) ==
    LET auth == requirePin(config.pin, req.cookie, req.xpin)
        limited == initUploadLimiter(limiter, req.key, req.header)
        seen == [request EXCEPT !.op = req.op, !.key = req.key, !.cookie = req.cookie,
                                !.xpin = req.xpin, !.header = req.header,
                                !.setCookie = auth.setCookie, !.reached = FALSE]
    IN  IF ~auth.next
        THEN /\ resp' = Response(req.op, 0, 401, "Unauthorized")
             /\ request' = seen
             /\ UNCHANGED <<uploads, folderMappings, batchActivity, uploadToBatch, dirs,
                            files, now, config, nextId, client, inflight, limiter,
                            aside>>
        ELSE IF ~limited.next
        THEN /\ resp' = Response(req.op, 0, 429, "Too many upload jobs started")
             /\ request' = seen
             /\ limiter' = limited.store
             /\ UNCHANGED <<uploads, folderMappings, batchActivity, uploadToBatch, dirs,
                            files, now, config, nextId, client, inflight, aside>>
        ELSE /\ handler
             /\ request' = [seen EXCEPT !.reached = TRUE,
                                        !.through = IF req.op = "init" THEN @ + 1 ELSE @]
             /\ limiter' = limited.store
             /\ UNCHANGED aside

\* The window of the limiter ends: the counts start again.
LimiterReset ==
    /\ limiter # EmptyMap \/ request.through > 0
    /\ limiter' = EmptyMap
    /\ request' = [request EXCEPT !.through = 0]
    /\ UNCHANGED <<uploads, folderMappings, batchActivity, uploadToBatch, dirs, files,
                   now, config, nextId, resp, client, inflight, aside>>

(***************************************************************************)
(* utils/security.js and routes/auth.js: the lockout of POST /verify-pin   *)
(***************************************************************************)
MAX_ATTEMPTS == 5
LOCKOUT_DURATION == 15 * 60 * 1000

\* loginAttempts.get(ip) || { count: 0, lastAttempt: 0 }
AttemptsOf(attempts, ip) ==
    IF ip \in DOMAIN attempts THEN attempts[ip] ELSE [count |-> 0, lastAttempt |-> 0]

\* resetAttempts(ip)
resetAttempts(attempts, ip) == MapDelete(attempts, ip)

\* Variant: the IP is locked out once it has more than MAX_ATTEMPTS attempts.
isLockedOutLate(attempts, ip, time) ==
    LET expired == /\ ip \in DOMAIN attempts
                   /\ attempts[ip].count > MAX_ATTEMPTS
                   /\ time - attempts[ip].lastAttempt >= LOCKOUT_DURATION
    IN  [locked |-> /\ ip \in DOMAIN attempts
                    /\ attempts[ip].count > MAX_ATTEMPTS
                    /\ time - attempts[ip].lastAttempt < LOCKOUT_DURATION,
         attempts |-> IF expired THEN resetAttempts(attempts, ip) ELSE attempts]
\* isLockedOut(ip): whether the IP is locked out, and the map as the call
\* leaves it: the entry of a lockout that has run out is removed.
isLockedOut(attempts, ip, time) ==
    LET expired == /\ ip \in DOMAIN attempts
                   /\ attempts[ip].count >= MAX_ATTEMPTS
                   /\ time - attempts[ip].lastAttempt >= LOCKOUT_DURATION
    IN  [locked |-> /\ ip \in DOMAIN attempts
                    /\ attempts[ip].count >= MAX_ATTEMPTS
                    /\ time - attempts[ip].lastAttempt < LOCKOUT_DURATION,
         attempts |-> IF expired THEN resetAttempts(attempts, ip) ELSE attempts]

\* recordAttempt(ip)
recordAttempt(attempts, ip, time) ==
    MapSet(attempts, ip, [count |-> AttemptsOf(attempts, ip).count + 1,
                          lastAttempt |-> time])

\* The timer of startCleanupInterval: entries whose last attempt is
\* LOCKOUT_DURATION old are deleted.
SecurityCleanup ==
    /\ loginAttempts' = [ip \in {i \in DOMAIN loginAttempts :
                                    now - loginAttempts[i].lastAttempt < LOCKOUT_DURATION}
                            |-> loginAttempts[ip]]
    /\ UNCHANGED <<uploads, folderMappings, batchActivity, uploadToBatch, dirs, files,
                   now, config, nextId, resp, client, inflight, edge, metadata,
                   cleanupTasks, parallel>>

\* req.body.pin as validatePin sees it: null unless it is a non-empty string
\* with 4 to 10 digits.
CleanedPin(pin) == IF pin.set THEN validatePin(pin.value) ELSE NoPin

\* router.post('/verify-pin')
VerifyPin(ip, pin) ==
    LET cleanedPin == CleanedPin(pin)
        lockout == isLockedOut(loginAttempts, ip, now)
    IN  IF config.pin = NoPin
        THEN /\ resp' = Response("verify-pin", 0, 200, "")
             /\ UNCHANGED loginAttempts
        ELSE IF cleanedPin = NoPin
        THEN /\ resp' = Response("verify-pin", 0, 401, "Invalid PIN format")
             /\ UNCHANGED loginAttempts
        ELSE IF lockout.locked
        THEN /\ loginAttempts' = recordAttempt(lockout.attempts, ip, now)
             /\ resp' = Response("verify-pin", 0, 429,
                                 "Too many PIN verification attempts")
        ELSE IF safeCompare(Credential(cleanedPin), config.pin)
        THEN /\ loginAttempts' = resetAttempts(lockout.attempts, ip)
             /\ resp' = Response("verify-pin", 0, 200, "")
        ELSE /\ loginAttempts' = recordAttempt(lockout.attempts, ip, now)
             /\ resp' = Response("verify-pin", 0, 401, "Invalid PIN")

\* max: 5 of pinVerifyLimiter.
PinLimiterMax == 5

\* pinVerifyLimiter: every request to /api/auth is counted under its IP and
\* passes while the count is at most max.  Counts above max + 1 are kept as
\* max + 1.
pinVerifyLimiter(store, key) ==
    LET hits == IF key \in DOMAIN store THEN store[key] + 1 ELSE 1
    IN  [next |-> hits <= PinLimiterMax,
         store |-> MapSet(store, key,
                          IF hits > PinLimiterMax THEN PinLimiterMax + 1 ELSE hits)]

\* app.use('/api/auth', pinVerifyLimiter, authRoutes)
AuthRoute(ip, pin) ==
    LET limited == pinVerifyLimiter(limiter, ip)
    IN  /\ limiter' = limited.store
        /\ IF limited.next
           THEN VerifyPin(ip, pin)
           ELSE /\ resp' = Response("verify-pin", 0, 429,
                                    "Too many PIN verification attempts")
                /\ UNCHANGED loginAttempts
        /\ UNCHANGED <<uploads, folderMappings, batchActivity, uploadToBatch, dirs, files,
                       now, config, nextId, client, inflight, request, metadata,
                       cleanupTasks, parallel>>

(***************************************************************************)
(* utils/cleanup.js: the registry of shutdown tasks and executeCleanup     *)
(***************************************************************************)
\* What a registered task does when it is called: resetAll is the task of a
\* rate limiter, which empties its store; the others resolve, reject with an
\* Error, throw before they return a promise, reject with a value that has no
\* message, or never settle.
TaskKinds == {"resolves", "rejects", "throws", "rejectsBare", "hangs"}

\* registerCleanupTask(task)
registerCleanupTask(tasks, kind) == [tasks EXCEPT !.registry = Append(@, kind)]

\* Variant: the tasks are called one after the other, and none after one that
\* threw.
StartedUntilThrow(registry) ==
    {i \in 1..Len(registry) : \A j \in 1..(i - 1) : registry[j] # "throws"}
\* cleanupTasks.map(async (task) => ...): every task of the registry is called
\* before the first await, each inside the try of its own wrapper.
StartedTasks(registry) == 1..Len(registry)

\* The finally of executeCleanup: the run is over and the registry is empty.
CleanupOver(tasks, logged) ==
    [tasks EXCEPT !.registry = <<>>, !.settled = "resolved", !.log = logged]

\* executeCleanup(timeout) up to its await.
executeCleanupBegin ==
    /\ cleanupTasks.settled = "none"
    /\ IF cleanupTasks.registry = <<>>
       THEN /\ cleanupTasks' = [cleanupTasks EXCEPT !.settled = "resolved",
                                                    !.log = "empty"]
            /\ UNCHANGED limiter
       ELSE /\ cleanupTasks' =
                  [cleanupTasks EXCEPT
                      !.started = StartedTasks(cleanupTasks.registry),
                      !.waiting = StartedTasks(cleanupTasks.registry),
                      !.run = cleanupTasks.registry,
                      !.settled = "pending"]
            /\ limiter' = IF \E i \in StartedTasks(cleanupTasks.registry) :
                                  cleanupTasks.registry[i] = "resetAll"
                          THEN EmptyMap ELSE limiter
    /\ UNCHANGED <<uploads, folderMappings, batchActivity, uploadToBatch, dirs, files,
                   now, config, nextId, resp, client, inflight, request, metadata,
                   loginAttempts, parallel>>

\* The wrapper of task i settles: the task has resolved, or the catch of the
\* wrapper has logged what it threw or rejected with, or (timedOut) the timer
\* of timeout / 2 has fired first.  The catch itself throws on a value without
\* a message, which rejects Promise.all; when every wrapper has resolved,
\* Promise.all resolves.  Either ends the run if it is still under way.
TaskSettled(i, timedOut) ==
    LET kind == cleanupTasks.run[i]
        left == cleanupTasks.waiting \ {i}
        waited == [cleanupTasks EXCEPT !.waiting = left]
    IN  /\ i \in cleanupTasks.waiting
        /\ timedOut <=> kind = "hangs"
        /\ cleanupTasks' =
              IF cleanupTasks.settled # "pending" THEN waited
              ELSE IF kind = "rejectsBare" THEN CleanupOver(waited, "failed")
              ELSE IF left = {} THEN CleanupOver(waited, "completed")
              ELSE waited
        /\ UNCHANGED <<uploads, folderMappings, batchActivity, uploadToBatch, dirs, files,
                       now, config, nextId, resp, client, inflight, edge, metadata,
                       loginAttempts, parallel>>

(***************************************************************************)
(* utils/cleanup.js: the janitor, and the batch sweep of routes/upload.js  *)
(***************************************************************************)
IsPrefix(p, q) == Len(p) <= Len(q) /\ SubSeq(q, 1, Len(p)) = p

MetadataName == <<".", "m", "e", "t", "a", "d", "a", "t", "a">>

InsideMetadata(p) ==
    \E i \in (Len(UploadDir) + 1)..Len(p) : p[i] = MetadataName

\* Variant: only the directories that have no entry when the sweep starts are
\* removed.
cleanupEmptyFoldersFlat(d, f) ==
    LET removable(p) ==
            /\ IsPrefix(UploadDir, p) /\ p # UploadDir /\ ~InsideMetadata(p)
            /\ \A q \in d \cup DOMAIN f : IsPrefix(p, q) => q = p
    IN  {p \in d : ~removable(p)}
\* cleanupEmptyFolders(config.uploadDir): bottom-up, removes each directory
\* below the upload directory that has nothing left in it; .metadata
\* directories are neither entered nor removed.
cleanupEmptyFolders(d, f) ==
    LET removable(p) ==
            /\ IsPrefix(UploadDir, p) /\ p # UploadDir
            /\ \A q \in d \cup DOMAIN f :
                   IsPrefix(p, q) => (q \in d /\ ~InsideMetadata(q))
    IN  {p \in d : ~removable(p)}

\* now - lastActivity > inactivityThreshold; an upload without a batch entry
\* compares against undefined and is never stale.
IsInactive(uploadId) ==
    /\ uploadId \in DOMAIN uploadToBatch
    /\ uploadToBatch[uploadId] \in DOMAIN batchActivity
    /\ now - batchActivity[uploadToBatch[uploadId]] > inactivityThreshold

RECURSIVE UnlinkAll(_, _, _)
UnlinkAll(f, paths, unlinkOk) ==
    IF paths = {} THEN f
    ELSE LET p == CHOOSE q \in paths : TRUE
         IN  UnlinkAll(Unlink(f, p, unlinkOk), paths \ {p}, unlinkOk)

cleanupIncompleteUploads(unlinkOk) ==
    LET stale == {u \in DOMAIN uploads : IsInactive(u)}
        remaining == UnlinkAll(files, {uploads[u].filePath : u \in stale}, unlinkOk)
    IN  /\ uploads' = [u \in (DOMAIN uploads) \ stale |-> uploads[u]]
        /\ uploadToBatch' = [u \in (DOMAIN uploadToBatch) \ stale |-> uploadToBatch[u]]
        /\ files' = remaining
        /\ dirs' = cleanupEmptyFolders(dirs, remaining)
        /\ UNCHANGED <<folderMappings, batchActivity, now, config, nextId, resp>>

(***************************************************************************)
(* utils/cleanup.js: the janitor of the .metadata directory                *)
(***************************************************************************)
\* config.uploadTimeout || 30 * 60 * 1000
UPLOAD_TIMEOUT == 30 * 60 * 1000

\* The files of the .metadata directory are named by an id and an extension.
\* A .meta file cannot be read ("unreadable"), holds no JSON ("corrupt"),
\* holds JSON without the fields of a session ("fieldless"), or holds a
\* session with its lastActivity and partialFilePath; of a .tmp file the
\* janitor looks at the mtime only.
MetaFile(id) == [id |-> id, ext |-> "meta"]
TmpFile(id) == [id |-> id, ext |-> "tmp"]
MetaRecord(kind, lastActivity, partialFilePath) ==
    [kind |-> kind, lastActivity |-> lastActivity, partialFilePath |-> partialFilePath]

\* fs.readFile and JSON.parse of a .meta file succeed.
MetaParsed(record) == record.kind \in {"fieldless", "session"}

\* metadata.lastActivity || metadata.createdAt || 0
MetaActivity(record) == IF record.kind = "session" THEN record.lastActivity ELSE 0

\* Variant: the scan ends at the first .meta file that cannot be read or
\* parsed; readdir lists the files by id.
MetaScannedUntilError(records) ==
    {n \in DOMAIN records :
        \A k \in DOMAIN records :
            (k.id < n.id /\ k.ext = "meta") => MetaParsed(records[k])}
\* The files the loop of the scan visits: the try that reads and parses a
\* record is inside the loop, so all of them.
MetaScanned(records) == DOMAIN records

\* cleanupIncompleteMetadataUploads: the partial file and the record of every
\* stale session are unlinked, and every old .tmp file; then the empty
\* folders are swept.  unlinkPartialOk and unlinkMetaOk are the outcomes of
\* the unlink calls.  The line the scan logs at its end, with the records it
\* looked at and the ones it removed, is kept in resp.
cleanupIncompleteMetadataUploads(unlinkPartialOk, unlinkMetaOk) ==
    LET scanned == MetaScanned(metadata)
        stale == {n \in scanned : /\ n.ext = "meta"
                                  /\ MetaParsed(metadata[n])
                                  /\ now - MetaActivity(metadata[n]) > UPLOAD_TIMEOUT}
        oldTmp == {n \in scanned : /\ n.ext = "tmp"
                                   /\ now - metadata[n].lastActivity > UPLOAD_TIMEOUT}
        partials == {metadata[n].partialFilePath : n \in stale} \ {NoPath}
        remaining == UnlinkAll(files, partials, unlinkPartialOk)
        unlinked == IF unlinkMetaOk THEN stale \cup oldTmp ELSE {}
    IN  /\ metadata' = [n \in (DOMAIN metadata) \ unlinked |-> metadata[n]]
        /\ files' = remaining
        /\ dirs' = cleanupEmptyFolders(dirs, remaining)
        /\ resp' = [Response("metadata-cleanup", 0, 0, "")
                       EXCEPT !.checked = Cardinality({n \in scanned : n.ext = "meta"}),
                              !.cleaned = Cardinality(stale \cap unlinked)]
        /\ UNCHANGED <<uploads, folderMappings, batchActivity, uploadToBatch, now, config,
                       nextId>>

(***************************************************************************)
(* cleanupIncompleteUploads, one step per await                            *)
(***************************************************************************)
\* now - lastActivity > inactivityThreshold, with the time the sweep sampled.
IsInactiveAt(uploadId, time) ==
    /\ uploadId \in DOMAIN uploadToBatch
    /\ uploadToBatch[uploadId] \in DOMAIN batchActivity
    /\ time - batchActivity[uploadToBatch[uploadId]] > inactivityThreshold

\* The loop over uploads.entries() runs on, from the entry after the one with
\* the id last, until it finds an inactive upload: it ends that upload's
\* stream and waits for the callback.  With no such entry left it goes on to
\* the empty folders.  The entries are in the order of their ids.
SweepOn(ups, time, last) ==
    LET stale == {u \in DOMAIN ups : u > last /\ IsInactiveAt(u, time)}
        u == CHOOSE x \in stale : \A y \in stale : x <= y
    IN  IF stale = {}
        THEN /\ inflight' = [inflight EXCEPT !.sweep = <<[pc |-> "folders", now |-> time,
                                                          uploadId |-> 0]>>]
             /\ uploads' = ups
        ELSE /\ inflight' = [inflight EXCEPT !.sweep = <<[pc |-> "end", now |-> time,
                                                          uploadId |-> u]>>]
             /\ uploads' = [ups EXCEPT ![u].writeStream =
                                           IF @ = "open" THEN "ended" ELSE @]

\* The interval fires: const now = Date.now(), and the loop starts.
SweepBegin ==
    /\ inflight.sweep = <<>>
    /\ SweepOn(uploads, now, 0)
    /\ UNCHANGED <<folderMappings, batchActivity, uploadToBatch, dirs, files, now,
                   config, nextId, resp>>

\* The callback of writeStream.end: await fs.unlink(upload.filePath).
SweepUnlink(unlinkOk) ==
    /\ inflight.sweep # <<>>
    /\ inflight.sweep[1].pc = "end"
    /\ LET uploadId == inflight.sweep[1].uploadId
       IN  files' = IF uploadId \in DOMAIN uploads
                    THEN Unlink(files, uploads[uploadId].filePath, unlinkOk)
                    ELSE files
    /\ inflight' = [inflight EXCEPT !.sweep[1].pc = "unlinked"]
    /\ UNCHANGED <<uploads, folderMappings, batchActivity, uploadToBatch, dirs, now,
                   config, nextId, resp>>

\* After the unlink: the entry leaves the maps, and the loop goes on.
SweepRemove ==
    /\ inflight.sweep # <<>>
    /\ inflight.sweep[1].pc = "unlinked"
    /\ LET uploadId == inflight.sweep[1].uploadId
       IN  /\ SweepOn(MapDelete(uploads, uploadId), inflight.sweep[1].now, uploadId)
           /\ uploadToBatch' = MapDelete(uploadToBatch, uploadId)
    /\ UNCHANGED <<folderMappings, batchActivity, dirs, files, now, config, nextId, resp>>

\* await cleanupEmptyFolders(config.uploadDir), the end of the sweep.
SweepFolders ==
    /\ inflight.sweep # <<>>
    /\ inflight.sweep[1].pc = "folders"
    /\ dirs' = cleanupEmptyFolders(dirs, files)
    /\ inflight' = [inflight EXCEPT !.sweep = <<>>]
    /\ UNCHANGED <<uploads, folderMappings, batchActivity, uploadToBatch, files, now,
                   config, nextId, resp>>

\* The interval callback of startBatchCleanup.
BatchCleanup ==
    /\ batchActivity' = [b \in {x \in DOMAIN batchActivity :
                                   ~(now - batchActivity[x] >= BATCH_TIMEOUT)}
                            |-> batchActivity[b]]
    /\ UNCHANGED <<uploads, folderMappings, uploadToBatch, dirs, files, now,
                   config, nextId, resp>>

(***************************************************************************)
(* The environment: clients, the clock, the process                        *)
(***************************************************************************)
\* What the client knows about an upload it was given a handle for: what it
\* declared, the path the server asked the file system for (requested) and
\* the one it got (filePath), the folder it named and the one chosen for it,
\* how many bytes of its file it has sent (pos), the length of its last chunk, whether it repeated a chunk
\* the server had applied (dup), whether the upload was cancelled, swept or
\* hit by an I/O error (disturbed), whether it saw the upload complete (done),
\* whether it sent a chunk after it had seen the upload complete (replayed),
\* the byte count of the session when the client cancelled it, -1 if it did
\* not (cancelledAt), and
\* the time of the last init or chunk of the upload that was accepted
\* (touched), the time of the last janitor sweep that found the session
\* (sweptAt, initially the time of the init) and the time of the one that
\* removed it (removedAt, -1 if none did).
NewClient(size, header, batchId, target, filePath) ==
    [fileSize |-> size, header |-> header, batchId |-> batchId,
     parts |-> target.parts, requested |-> target.filePath, filePath |-> filePath,
     folder |-> target.folder, chosen |-> target.chosen,
     pos |-> 0, lastN |-> 0, dup |-> FALSE, disturbed |-> FALSE, done |-> size = 0,
     replayed |-> FALSE, cancelledAt |-> -1, touched |-> now,
     sweptAt |-> now, removedAt |-> -1]

\* The outcomes of a call that can fail, and of one that does not.
Outcomes == BOOLEAN
NoFaults == {TRUE}

\* The outcomes of a notification: it can fail where one is sent.
AppriseOutcomes == IF config.appriseUrl THEN Outcomes ELSE NoFaults

\* The upload ids are 1, 2, ... in the order the generator returns them; a
\* client sends at most limit init requests that get one.
InitCall(filename, fileSize, header, hex, appriseOk) ==
    LET batchId == BatchIdOf(header, hex)
        target == ResolveTarget(safeFilename(filename), batchId)
        unique == getUniqueFilePath(target.dirs, files, target.filePath)
    IN  /\ InitUpload(filename, fileSize, header, hex, appriseOk)
        /\ client' = IF resp'.status = 200
                     THEN MapSet(client, resp'.uploadId,
                                 NewClient(fileSize.n, header, batchId, target,
                                           unique.path))
                     ELSE client
        /\ UNCHANGED inflight

InitRequest(names, sizes, headers, limit) ==
    \E filename \in names, fileSize \in sizes, header \in headers, hex \in RandomHex,
       appriseOk \in AppriseOutcomes :
        /\ nextId <= limit
        /\ InitCall(filename, fileSize, header, hex, appriseOk)
        /\ UNCHANGED <<edge, aside>>

\* The bytes of a client file are numbered from 1: byte i has value i.
Bytes(from, n) == [i \in 1..n |-> from + i]

\* The handles a request can carry: the ones given out, and one that never was.
Handles == (DOMAIN client) \cup {nextId}

\* The x-batch-id header of a chunk request: none, or the one of the init.
ChunkHeaders(uploadId) ==
    IF uploadId \in DOMAIN client THEN {NoHeader, client[uploadId].header}
    ELSE {NoHeader}

\* What the client records once the response to a chunk request is in.
AfterChunk(uploadId, pos, lastN, isRetry) ==
    IF uploadId \in DOMAIN client
    THEN client' = [client EXCEPT
             ![uploadId].pos = pos,
             ![uploadId].lastN = lastN,
             ![uploadId].dup = @ \/ (isRetry /\ uploadId \in DOMAIN uploads),
             ![uploadId].disturbed = @ \/ resp'.status = 500,
             ![uploadId].replayed = @ \/ client[uploadId].done,
             ![uploadId].touched = IF resp'.status = 200 THEN now ELSE @,
             ![uploadId].done = @ \/ (resp'.status = 200
                                       /\ resp'.bytesReceived >= client[uploadId].fileSize)]
    ELSE UNCHANGED client

\* The client sends the next n bytes of its file (or n bytes to a handle it
\* was never given).
ChunkCall(uploadId, n, header, writeOk, endOk, appriseOk) ==
    LET known == uploadId \in DOMAIN client
        pos == IF known THEN client[uploadId].pos ELSE 0
    IN  /\ known => pos < client[uploadId].fileSize
        /\ AppendChunk(uploadId, Bytes(pos, n), header, writeOk, endOk, appriseOk)
        /\ AfterChunk(uploadId, pos + n, n, FALSE)
        /\ UNCHANGED inflight

ChunkRequest(lens, outcomes) ==
    \E uploadId \in Handles, n \in lens, writeOk \in outcomes, endOk \in outcomes,
       appriseOk \in AppriseOutcomes :
        \E header \in ChunkHeaders(uploadId) :
            /\ ChunkCall(uploadId, n, header, writeOk, endOk, appriseOk)
            /\ UNCHANGED <<edge, aside>>

\* FileUploader.readChunk: the client of public/index.html cuts its file into
\* chunks of chunkSize bytes, the last one shorter, and sends each with the
\* batch id of its init.
UploaderChunk(sizes) ==
    \E uploadId \in DOMAIN client, chunkSize \in sizes :
        LET left == client[uploadId].fileSize - client[uploadId].pos
            n == IF chunkSize < left THEN chunkSize ELSE left
        IN  /\ left > 0
            /\ ChunkCall(uploadId, n, client[uploadId].header, TRUE, TRUE, TRUE)
            /\ UNCHANGED <<edge, aside>>

\* The client sends its last chunk once more.
ChunkRetry(outcomes) ==
    \E uploadId \in DOMAIN client, writeOk \in outcomes, endOk \in outcomes,
       appriseOk \in AppriseOutcomes :
        \E header \in ChunkHeaders(uploadId) :
            LET c == client[uploadId]
            IN  /\ c.pos > 0
                /\ AppendChunk(uploadId, Bytes(c.pos - c.lastN, c.lastN), header,
                               writeOk, endOk, appriseOk)
                /\ AfterChunk(uploadId, c.pos, c.lastN, TRUE)
                /\ UNCHANGED <<inflight, edge, aside>>

CancelCall(uploadId, unlinkOk) ==
    /\ CancelUpload(uploadId, unlinkOk)
    /\ client' = [u \in DOMAIN client |->
                     IF u = uploadId /\ u \in DOMAIN uploads
                     THEN [client[u] EXCEPT !.disturbed = TRUE,
                                            !.cancelledAt = uploads[u].bytesReceived]
                     ELSE client[u]]
    /\ UNCHANGED inflight

CancelRequest(outcomes) ==
    \E uploadId \in Handles, unlinkOk \in outcomes :
        CancelCall(uploadId, unlinkOk) /\ UNCHANGED <<edge, aside>>

\* The values an HTTP header can take of the given ones: the parser strips
\* the white space at the end of a header value, a cookie can hold it encoded.
HeaderValues(credentials) ==
    {c \in credentials : c.value = <<>> \/ c.value[Len(c.value)] # " "}

\* The same requests as they come in over HTTP, from the client with the
\* given key and with a cookie and an x-pin header from the given set.  A
\* client sends init requests without a filename at any time.
RoutedInit(names, sizes, headers, credentials, limit) ==
    \E filename \in names, fileSize \in sizes, header \in headers, hex \in RandomHex,
       cookie \in credentials, xpin \in HeaderValues(credentials) :
        /\ nextId <= limit \/ filename = <<>>
        /\ UploadRoute([op |-> "init", key |-> "c", cookie |-> cookie, xpin |-> xpin,
                        header |-> header],
                       InitCall(filename, fileSize, header, hex, TRUE))

RoutedChunk(lens, credentials) ==
    \E uploadId \in Handles, n \in lens, cookie \in credentials, xpin \in HeaderValues(credentials) :
        \E header \in ChunkHeaders(uploadId) :
            UploadRoute([op |-> "chunk", key |-> "c", cookie |-> cookie, xpin |-> xpin,
                         header |-> header],
                        ChunkCall(uploadId, n, header, TRUE, TRUE, TRUE))

RoutedCancel(credentials) ==
    \E uploadId \in Handles, cookie \in credentials, xpin \in HeaderValues(credentials) :
        UploadRoute([op |-> "cancel", key |-> "c", cookie |-> cookie, xpin |-> xpin,
                     header |-> NoHeader],
                    CancelCall(uploadId, TRUE))

\* The steps of the /init handlers that run side by side; the client learns
\* of its upload when the handler answers.
InitAnswered(uploadId) ==
    LET locals == inflight.init[uploadId]
        target == [parts |-> locals.pathParts, filePath |-> locals.filePath,
                   folder |-> locals.folder, chosen |-> locals.chosen]
    IN  client' = IF uploadId \notin DOMAIN inflight'.init /\ resp'.status = 200
                  THEN MapSet(client, uploadId,
                              NewClient(locals.size, locals.header, locals.batchId,
                                        target, locals.finalPath))
                  ELSE client

InitArrives(names, sizes, headers, limit) ==
    \E filename \in names, fileSize \in sizes, header \in headers, hex \in RandomHex :
        /\ nextId <= limit
        /\ InitBegin(filename, fileSize, header, hex)
        /\ UNCHANGED <<client, edge, aside>>

InitMkdirParentStep ==
    \E u \in DOMAIN inflight.init : InitMkdirParent(u) /\ InitAnswered(u) /\ UNCHANGED <<edge, aside>>
InitMkdirFolderStep ==
    \E u \in DOMAIN inflight.init : InitMkdirFolder(u) /\ InitAnswered(u) /\ UNCHANGED <<edge, aside>>
InitUniqueFolderStep ==
    \E u \in DOMAIN inflight.init : InitUniqueFolder(u) /\ InitAnswered(u) /\ UNCHANGED <<edge, aside>>
InitMkdirFileDirStep ==
    \E u \in DOMAIN inflight.init : InitMkdirFileDir(u) /\ InitAnswered(u) /\ UNCHANGED <<edge, aside>>
InitOpenStep ==
    \E u \in DOMAIN inflight.init, appriseOk \in AppriseOutcomes :
        InitOpen(u, appriseOk) /\ InitAnswered(u) /\ UNCHANGED <<edge, aside>>

JanitorSweep(outcomes) ==
    \E unlinkOk \in outcomes :
        /\ cleanupIncompleteUploads(unlinkOk)
        /\ client' = [u \in DOMAIN client |->
                         IF u \in DOMAIN uploads
                         THEN IF IsInactive(u)
                              THEN [client[u] EXCEPT !.disturbed = TRUE,
                                                     !.sweptAt = now, !.removedAt = now]
                              ELSE [client[u] EXCEPT !.sweptAt = now]
                         ELSE client[u]]
        /\ UNCHANGED <<inflight, edge, aside>>

\* A chunk request arrives for an upload that has no chunk under way.
ChunkArrives(lens) ==
    \E uploadId \in Handles, n \in lens :
        \E header \in ChunkHeaders(uploadId) :
            LET known == uploadId \in DOMAIN client
                pos == IF known THEN client[uploadId].pos ELSE 0
            IN  /\ known => pos < client[uploadId].fileSize
                /\ uploadId \notin DOMAIN inflight.chunk
                /\ ChunkBegin(uploadId, Bytes(pos, n), header)
                /\ UNCHANGED <<edge, aside>>
                /\ IF uploadId \in DOMAIN inflight'.chunk
                   THEN UNCHANGED client
                   ELSE AfterChunk(uploadId, pos + n, n, FALSE)

\* The client records the response, if the step gave one.
ChunkAnswered(uploadId) ==
    LET n == Len(inflight.chunk[uploadId].body)
    IN  IF uploadId \in DOMAIN inflight'.chunk
        THEN UNCHANGED client
        ELSE AfterChunk(uploadId, client[uploadId].pos + n, n, FALSE)

ChunkWrittenStep(outcomes) ==
    \E uploadId \in DOMAIN inflight.chunk, writeOk \in outcomes :
        ChunkWritten(uploadId, writeOk) /\ ChunkAnswered(uploadId) /\ UNCHANGED <<edge, aside>>

ChunkEndedStep(outcomes) ==
    \E uploadId \in DOMAIN inflight.chunk, endOk \in outcomes, appriseOk \in AppriseOutcomes :
        /\ ChunkEnded(uploadId, endOk, appriseOk)
        /\ ChunkAnswered(uploadId)
        /\ UNCHANGED <<edge, aside>>

\* The steps of a cancel request; the client notes how far its upload was when
\* the request arrived.
CancelArrives ==
    \E uploadId \in Handles :
        /\ CancelBegin(uploadId)
        /\ UNCHANGED <<edge, aside>>
        /\ client' = [u \in DOMAIN client |->
                         IF u = uploadId /\ u \in DOMAIN uploads
                         THEN [client[u] EXCEPT !.disturbed = TRUE,
                                                !.cancelledAt = uploads[u].bytesReceived]
                         ELSE client[u]]

CancelUnlinkedStep(outcomes) ==
    \E uploadId \in DOMAIN inflight.cancel, unlinkOk \in outcomes :
        CancelUnlinked(uploadId, unlinkOk) /\ UNCHANGED <<client, edge, aside>>

\* The steps of a janitor sweep; the sweep that unlinks the file of an upload
\* is the one that removes it.
SweepBeginStep == SweepBegin /\ UNCHANGED <<client, edge, aside>>

SweepUnlinkStep(outcomes) ==
    \E unlinkOk \in outcomes :
        /\ SweepUnlink(unlinkOk)
        /\ UNCHANGED <<edge, aside>>
        /\ client' = [u \in DOMAIN client |->
                         IF u = inflight.sweep[1].uploadId
                         THEN [client[u] EXCEPT !.disturbed = TRUE,
                                                !.sweptAt = now, !.removedAt = now]
                         ELSE client[u]]

SweepRemoveStep == SweepRemove /\ UNCHANGED <<client, edge, aside>>

SweepFoldersStep == SweepFolders /\ UNCHANGED <<client, edge, aside>>

\* The timer of the metadata janitor fires.
MetadataSweep(outcomes) ==
    \E unlinkPartialOk \in outcomes, unlinkMetaOk \in outcomes :
        /\ cleanupIncompleteMetadataUploads(unlinkPartialOk, unlinkMetaOk)
        /\ UNCHANGED <<client, inflight, edge, loginAttempts, cleanupTasks, parallel>>

BatchSweep == BatchCleanup /\ UNCHANGED <<client, inflight, edge, aside>>

Tick ==
    /\ now < MaxTicks * TickMs
    /\ now' = now + TickMs
    /\ UNCHANGED <<uploads, folderMappings, batchActivity, uploadToBatch, dirs,
                   files, config, nextId, resp, client, inflight, edge, aside>>

\* The process is stopped and started again: the maps of the module start
\* empty, the disk is as it was left.
Restart ==
    /\ uploads' = EmptyMap
    /\ folderMappings' = EmptyMap
    /\ batchActivity' = EmptyMap
    /\ uploadToBatch' = EmptyMap
    /\ resp' = Response("restart", 0, 0, "")
    /\ inflight' = NoInflight
    /\ limiter' = EmptyMap
    /\ loginAttempts' = EmptyMap
    /\ cleanupTasks' = NoTasks
    /\ parallel' = NoParallel
    /\ UNCHANGED <<dirs, files, now, config, nextId, client, request, metadata>>

\* The configuration of a deployment that sets MAX_FILE_SIZE only: every
\* extension is allowed, no notification is sent, no PIN is asked for.
DefaultConfig(maxFileSize) ==
    [maxFileSize |-> maxFileSize,
     allowedExtensions |-> ParseAllowedExtensions(<<>>),
     appriseUrl |-> FALSE,
     pin |-> NoPin]

\* The state after start-up with the given configuration on an upload
\* directory with the given content.
StartupAsked(configuration, existingDirs, existingFiles, records, asked) ==
    /\ uploads = EmptyMap
    /\ folderMappings = EmptyMap
    /\ batchActivity = EmptyMap
    /\ uploadToBatch = EmptyMap
    /\ dirs = Prefixes(UploadDir) \cup existingDirs
    /\ files = [p \in existingFiles |-> <<>>]
    /\ now = 0
    /\ config = configuration
    /\ nextId = 1
    /\ resp = Response("none", 0, 0, "")
    /\ client = EmptyMap
    /\ inflight = NoInflight
    /\ limiter = EmptyMap
    /\ request = asked
    /\ metadata = records
    /\ loginAttempts = EmptyMap
    /\ cleanupTasks = NoTasks
    /\ parallel = NoParallel

StartupOn(configuration, existingDirs, existingFiles, records) ==
    StartupAsked(configuration, existingDirs, existingFiles, records, NoRequest)

StartupWith(configuration, existingDirs, existingFiles) ==
    StartupOn(configuration, existingDirs, existingFiles, EmptyMap)

Startup(maxFileSize, existingDirs, existingFiles) ==
    StartupWith(DefaultConfig(maxFileSize), existingDirs, existingFiles)

(***************************************************************************)
(* Specifications                                                          *)
(***************************************************************************)
\* Every operation with every input, on an empty upload directory.
Init == Startup(MaxFileSize, {}, {})

AnyInit == InitRequest(FileNames, FileSizes, BatchHeaders, MaxUploads)
AnyChunk == ChunkRequest(0..MaxChunk, Outcomes)
AnyRetry == ChunkRetry(Outcomes)
AnyCancel == CancelRequest(Outcomes)
AnyJanitorSweep == JanitorSweep(Outcomes)

Next ==
    \/ AnyInit
    \/ AnyChunk
    \/ AnyRetry
    \/ AnyCancel
    \/ AnyJanitorSweep
    \/ BatchSweep
    \/ Tick
    \/ Restart

Spec == Init /\ [][Next]_vars

\* Uploads of one file name without I/O errors: init, chunks of every length,
\* repeated chunks, cancellation.
IngestInit == InitRequest({<<>>, NameFile}, FileSizes, {BatchOne, BatchBad}, MaxUploads)
IngestChunk == ChunkRequest(0..MaxChunk, NoFaults)
IngestRetry == ChunkRetry(NoFaults)
IngestCancel == CancelRequest(NoFaults)

NextIngest ==
    \/ IngestInit
    \/ IngestChunk
    \/ IngestRetry
    \/ IngestCancel

SpecIngest == Init /\ [][NextIngest]_vars

\* The same uploads with write and end calls that may fail.
FaultsInit ==
    InitRequest({NameFile}, {FileSizeNumber(k) : k \in 0..MaxFileSize}, {BatchOne},
                MaxUploads)
FaultsChunk == ChunkRequest(0..MaxChunk, Outcomes)
FaultsRetry == ChunkRetry(Outcomes)
FaultsCancel == CancelRequest(Outcomes)

NextFaults ==
    \/ FaultsInit
    \/ FaultsChunk
    \/ FaultsRetry
    \/ FaultsCancel

SpecFaults == Init /\ [][NextFaults]_vars

\* Uploads sent in chunks and cancelled at any point, with an unlink that may
\* fail.
CancelInit ==
    InitRequest({NameFile}, {FileSizeNumber(k) : k \in 0..MaxFileSize}, {BatchOne},
                MaxUploads)
CancelChunk == ChunkRequest(0..MaxChunk, NoFaults)
CancelWithFaults == CancelRequest(Outcomes)

NextCancel ==
    \/ CancelInit
    \/ CancelChunk
    \/ CancelWithFaults

SpecCancel == Init /\ [][NextCancel]_vars

\* Init requests with every kind of input error, on a deployment without
\* ALLOWED_EXTENSIONS and on one with ALLOWED_EXTENSIONS=" .T".
EnvAllowedExtensions == <<<<" ", ".", "T">>>>

InitExtensions ==
    \/ Startup(MaxFileSize, {}, {})
    \/ StartupWith([DefaultConfig(MaxFileSize) EXCEPT
                        !.allowedExtensions = ParseAllowedExtensions(EnvAllowedExtensions)],
                   {}, {})

ExtensionsInit ==
    InitRequest({<<>>, NameFile, NameUpperExt, NameOtherExt, NameInFolderA}, FileSizes,
                BatchHeaders, MaxUploads)
ExtensionsCancel == CancelRequest(NoFaults)

NextExtensions ==
    \/ ExtensionsInit
    \/ ExtensionsCancel

SpecExtensions == InitExtensions /\ [][NextExtensions]_vars

\* Uploads of files in folders, in two batches, while time passes and the
\* batch sweep runs.
BatchesInit ==
    InitRequest({NameInFolderA, NameInFolderB}, {FileSizeNumber(0), FileSizeNumber(1)},
                {BatchOne, BatchTwo}, MaxPathUploads)

NextBatches ==
    \/ BatchesInit
    \/ BatchSweep
    \/ Tick

SpecBatches == Init /\ [][NextBatches]_vars

\* A deployment with DUMBDROP_PIN=12-34, and requests with and without
\* credentials: the PIN, another PIN, the PIN followed by a space, an empty
\* string.
EnvPin == <<"1", "2", "-", "3", "4">>
ThePin == <<"1", "2", "3", "4">>
Credentials ==
    {NoCredential, Credential(ThePin), Credential(<<"1", "2", "3", "5">>),
     Credential(ThePin \o <<" ">>), Credential(<<>>)}

InitPin ==
    StartupWith([DefaultConfig(MaxFileSize) EXCEPT !.pin = validatePin(EnvPin)], {}, {})

PinInit ==
    RoutedInit({NameFile}, {FileSizeNumber(MaxFileSize)}, {BatchOne}, Credentials,
               MaxUploads)
PinChunk == RoutedChunk({1}, {NoCredential, Credential(ThePin)})
PinCancel == RoutedCancel({NoCredential, Credential(ThePin)})

NextPin ==
    \/ PinInit
    \/ PinChunk
    \/ PinCancel

SpecPin == InitPin /\ [][NextPin]_vars

\* One client that sends init requests with and without an x-batch-id header
\* while the windows of the limiter pass, on a deployment without PIN.
LimiterInit ==
    /\ request.through <= LimiterMax
    /\ RoutedInit({<<>>, NameFile}, {FileSizeNumber(1)}, {NoHeader, BatchOne, BatchBad},
                  {NoCredential}, MaxUploads)
LimiterChunk == RoutedChunk({1}, {NoCredential})

NextLimiter ==
    \/ LimiterInit
    \/ LimiterChunk
    \/ LimiterReset

SpecLimiter == Init /\ [][NextLimiter]_vars

\* One upload whose chunk and cancel requests are handled side by side,
\* without I/O errors.
CancelRaceInit ==
    InitRequest({NameFile}, {FileSizeNumber(k) : k \in 1..MaxFileSize}, {BatchOne},
                MaxUploads)
CancelRaceChunk == ChunkArrives(1..MaxChunk)
CancelRaceChunkWritten == ChunkWrittenStep(NoFaults)
CancelRaceChunkEnded == ChunkEndedStep(NoFaults)
CancelRaceUnlinked == CancelUnlinkedStep(NoFaults)

NextCancelRace ==
    \/ CancelRaceInit
    \/ CancelRaceChunk
    \/ CancelRaceChunkWritten
    \/ CancelRaceChunkEnded
    \/ CancelArrives
    \/ CancelRaceUnlinked

SpecCancelRace == Init /\ [][NextCancelRace]_vars

\* Uploads on a deployment with APPRISE_URL set, whose notifications may
\* fail.
InitNotify ==
    StartupWith([DefaultConfig(MaxFileSize) EXCEPT !.appriseUrl = TRUE], {}, {})

NotifyInit ==
    InitRequest({NameFile}, {FileSizeNumber(k) : k \in 0..MaxFileSize}, {BatchOne},
                MaxUploads)
NotifyChunk == ChunkRequest(0..MaxChunk, NoFaults)
NotifyRetry == ChunkRetry(NoFaults)
NotifyCancel == CancelRequest(NoFaults)

NextNotify ==
    \/ NotifyInit
    \/ NotifyChunk
    \/ NotifyRetry
    \/ NotifyCancel

SpecNotify == InitNotify /\ [][NextNotify]_vars

\* Uploads whose write and end calls may fail, without repeated chunks.
FinalizeInit ==
    InitRequest({NameFile}, {FileSizeNumber(k) : k \in 1..MaxFileSize}, {BatchOne},
                MaxUploads)
FinalizeChunk == ChunkRequest(0..MaxChunk, Outcomes)
FinalizeCancel == CancelRequest(NoFaults)

NextFinalize ==
    \/ FinalizeInit
    \/ FinalizeChunk
    \/ FinalizeCancel

SpecFinalize == Init /\ [][NextFinalize]_vars

\* Chunk requests for one upload that are served side by side, with and without
\* a notification URL.
InitParallel ==
    \E appriseUrl \in BOOLEAN :
        StartupWith([DefaultConfig(MaxFileSize) EXCEPT !.appriseUrl = appriseUrl], {}, {})

ParallelInit ==
    /\ ParallelQuiet
    /\ parallel.chunk = EmptyMap
    /\ InitRequest({NameFile}, {FileSizeNumber(k) : k \in 1..MaxFileSize}, {BatchOne},
                   MaxUploads)
ParallelArrives ==
    \E uploadId \in Handles, n \in 1..MaxChunk :
        /\ parallel.next <= MaxHandlers
        /\ ParallelBegin(uploadId, Bytes(0, n), NoHeader)
        /\ UNCHANGED <<client, inflight, edge, metadata, loginAttempts, cleanupTasks>>
ParallelFlushStep ==
    \E uploadId \in DOMAIN uploads :
        /\ ParallelFlush(uploadId)
        /\ UNCHANGED <<client, inflight, edge, metadata, loginAttempts, cleanupTasks>>
ParallelFinishStep ==
    \E uploadId \in DOMAIN uploads :
        /\ ParallelFinish(uploadId)
        /\ UNCHANGED <<client, inflight, edge, metadata, loginAttempts, cleanupTasks>>
ParallelContinueStep ==
    /\ ParallelContinue
    /\ UNCHANGED <<client, inflight, edge, metadata, loginAttempts, cleanupTasks>>
ParallelNotifiedStep ==
    \E r \in DOMAIN parallel.chunk, appriseOk \in Outcomes :
        /\ ParallelNotified(r, appriseOk)
        /\ UNCHANGED <<client, inflight, edge, metadata, loginAttempts, cleanupTasks>>

NextParallel ==
    \/ ParallelInit
    \/ ParallelArrives
    \/ ParallelFlushStep
    \/ ParallelFinishStep
    \/ ParallelContinueStep
    \/ ParallelNotifiedStep

SpecParallel == InitParallel /\ [][NextParallel]_vars

\* PIN verifications from two addresses while the clock advances in thirds of
\* the lockout.  An address stops asking once its counter is two above
\* MAX_ATTEMPTS.
IpOne == "10.0.0.1"
IpTwo == "10.0.0.2"
WrongPin == <<"1", "2", "3", "5">>
BodyPins == {NoCredential, Credential(ThePin), Credential(EnvPin), Credential(WrongPin),
             Credential(<<"1", "2">>)}
LockoutTickMs == LOCKOUT_DURATION \div 3

LockoutVerify(ip, pin) ==
    /\ AttemptsOf(loginAttempts, ip).count < MAX_ATTEMPTS + 2
    /\ AuthRoute(ip, pin)
LockoutVerifyOne == \E pin \in BodyPins : LockoutVerify(IpOne, pin)
LockoutVerifyTwo == LockoutVerify(IpTwo, Credential(WrongPin))
LockoutTick ==
    /\ now < (MaxTicks + 2) * LockoutTickMs
    /\ now' = now + LockoutTickMs
    /\ UNCHANGED <<uploads, folderMappings, batchActivity, uploadToBatch, dirs,
                   files, config, nextId, resp, client, inflight, edge, aside>>
LockoutCleanup == SecurityCleanup
LockoutWindow == LimiterReset

NextLockout ==
    \/ LockoutVerifyOne
    \/ LockoutVerifyTwo
    \/ LockoutTick
    \/ LockoutCleanup
    \/ LockoutWindow

SpecLockout == InitPin /\ [][NextLockout]_vars

\* safeCompare on pairs of values: something that is no string, the empty
\* string, strings that differ in a character, in their length or in spaces
\* at either end, and strings of more than 32 characters.
Repeated(c, n) == [i \in 1..n |-> c]
CompareValues ==
    {NoCredential, Credential(<<>>), Credential(ThePin), Credential(WrongPin),
     Credential(ThePin \o <<" ">>), Credential(ThePin \o <<" ", " ">>),
     Credential(<<" ">> \o ThePin), Credential(ThePin \o <<"5">>),
     Credential(Repeated("7", 32)), Credential(Repeated("7", 33)),
     Credential(Repeated("7", 32) \o <<"8">>), Credential(Repeated("7", 34))}

InitCompare ==
    \E a \in CompareValues, b \in CompareValues :
        StartupAsked(DefaultConfig(MaxFileSize), {}, {}, EmptyMap,
                     [NoRequest EXCEPT !.cookie = a, !.xpin = b])

NextCompare == CompareCall

SpecCompare == InitCompare /\ [][NextCompare]_vars

\* The shutdown of a process in which tasks of every kind were registered
\* beside the ones of the rate limiters; tasks are registered until the run
\* of executeCleanup is over and the process exits.
ShutdownRegister ==
    \E kind \in TaskKinds :
        /\ cleanupTasks.settled # "resolved"
        /\ Len(cleanupTasks.registry) < Len(NoTasks.registry) + MaxTasks
        /\ cleanupTasks' = registerCleanupTask(cleanupTasks, kind)
        /\ UNCHANGED <<uploads, folderMappings, batchActivity, uploadToBatch, dirs,
                       files, now, config, nextId, resp, client, inflight, edge,
                       metadata, loginAttempts, parallel>>
\* shutdownHandler, after the server is closed: await executeCleanup(1000)
ShutdownCleanup == executeCleanupBegin
ShutdownTaskSettles == \E i \in cleanupTasks.waiting : TaskSettled(i, FALSE)
ShutdownTaskTimeout == \E i \in cleanupTasks.waiting : TaskSettled(i, TRUE)

NextShutdown ==
    \/ ShutdownRegister
    \/ ShutdownCleanup
    \/ ShutdownTaskSettles
    \/ ShutdownTaskTimeout

\* A task that settles does so in the end, and the timers fire.
SpecShutdown ==
    /\ Init
    /\ [][NextShutdown]_vars
    /\ WF_vars(ShutdownTaskSettles)
    /\ WF_vars(ShutdownTaskTimeout)

\* Uploads of files of 3 and of 7 bytes, whose percentages are no whole
\* numbers, on a server that accepts 7 bytes.
ProgressFiles == {[kind |-> "number", n |-> 3], [kind |-> "number", n |-> 7]}

InitProgress == Startup(7, {}, {})

ProgressInit == InitRequest({NameFile}, ProgressFiles, {BatchOne}, MaxUploads)
ProgressChunk == ChunkRequest(0..MaxChunk, NoFaults)

ProgressCancel == CancelRequest(NoFaults)

NextProgress ==
    \/ ProgressInit
    \/ ProgressChunk
    \/ ProgressCancel

SpecProgress == InitProgress /\ [][NextProgress]_vars

\* The metadata janitor on a .metadata directory with two records of any
\* kind, created at start-up or one tick later, with or without a partial
\* file, and a .tmp file, while time passes.
PartialOne == Append(UploadDir, <<"a", ".", "p">>)
PartialTwo == Append(UploadDir, <<"b", ".", "p">>)

RecordsOf(partialFilePath) ==
    {MetaRecord(kind, 0, NoPath) : kind \in {"unreadable", "corrupt", "fieldless"}}
        \cup {MetaRecord("session", t, q) : t \in {0, TickMs}, q \in {NoPath, partialFilePath}}

InitMetadata ==
    \E first \in RecordsOf(PartialOne), second \in RecordsOf(PartialTwo) :
        StartupOn(DefaultConfig(MaxFileSize), {Append(UploadDir, MetadataName)},
                  {PartialOne, PartialTwo},
                  [n \in {MetaFile(1), MetaFile(2), TmpFile(3)} |->
                      IF n = MetaFile(1) THEN first
                      ELSE IF n = MetaFile(2) THEN second
                      ELSE MetaRecord("tmp", 0, NoPath)])

MetadataJanitorSweep == MetadataSweep(NoFaults)

NextMetadata ==
    \/ MetadataJanitorSweep
    \/ Tick

SpecMetadata == InitMetadata /\ [][NextMetadata]_vars

\* The client of public/index.html: it sends the chunks of its file in order,
\* and sends a chunk again when the response to it did not arrive.
UploaderInit ==
    InitRequest({NameFile}, {FileSizeNumber(k) : k \in 1..(MaxFileSize + 1)}, {BatchOne},
                MaxPathUploads)
UploaderSends == UploaderChunk(1..MaxChunk)
UploaderRetries == ChunkRetry(NoFaults)

NextUploader ==
    \/ UploaderInit
    \/ UploaderSends
    \/ UploaderRetries

SpecUploader == Init /\ [][NextUploader]_vars

\* The same client when every response arrives.
NextUploaderNoRetry ==
    \/ UploaderInit
    \/ UploaderSends

SpecUploaderNoRetry == Init /\ [][NextUploaderNoRetry]_vars

\* Uploads of a file of 201 bytes, sent in chunks of 1 and of 200 bytes.
LargeFile == [kind |-> "number", n |-> 201]

InitLarge == Startup(LargeFile.n, {}, {})

LargeInit == InitRequest({NameFile}, {LargeFile}, {BatchOne}, MaxUploads)
LargeChunk == ChunkRequest({1, 200}, NoFaults)

NextLarge ==
    \/ LargeInit
    \/ LargeChunk

SpecLarge == InitLarge /\ [][NextLarge]_vars

\* The same uploads with a process that may be restarted.
RestartInit ==
    InitRequest({NameFile}, {FileSizeNumber(k) : k \in 0..MaxFileSize}, {BatchOne},
                MaxUploads)
RestartChunk == ChunkRequest(1..MaxChunk, NoFaults)
RestartCancel == CancelRequest(NoFaults)

NextRestart ==
    \/ RestartInit
    \/ RestartChunk
    \/ RestartCancel
    \/ Restart

SpecRestart == Init /\ [][NextRestart]_vars

\* Uploads of files in and outside of folders, in several batches, on an
\* upload directory that is empty or holds the folder f with the file a.t.
OldFolder == Append(UploadDir, <<"f">>)
OldFile == Append(OldFolder, NameFile)

InitPaths ==
    \/ Startup(MaxFileSize, {}, {})
    \/ Startup(MaxFileSize, {OldFolder}, {OldFile})

PathsInit ==
    InitRequest({NameFile, NameInFolderA, NameInFolderB, NameTraversal},
                {FileSizeNumber(0), FileSizeNumber(1)},
                {BatchOne, BatchTwo}, MaxPathUploads)
PathsCancel == CancelRequest(NoFaults)
PathsJanitorSweep == JanitorSweep(NoFaults)

NextPaths ==
    \/ PathsInit
    \/ PathsCancel
    \/ PathsJanitorSweep

SpecPaths == InitPaths /\ [][NextPaths]_vars

\* Uploads into folders and sweeps of the janitor, on an empty upload
\* directory and on one that holds a .metadata directory with a record and an
\* empty directory, three nested empty directories, and a folder with a file.
MetadataDir == Append(UploadDir, MetadataName)
MetadataSub == Append(MetadataDir, <<"e">>)
MetadataRecord == Append(MetadataDir, <<"1", ".", "m", "e", "t", "a">>)
NestedTop == Append(UploadDir, <<"d">>)
NestedMid == Append(NestedTop, <<"e">>)
NestedLeaf == Append(NestedMid, <<"g">>)

InitFolders ==
    \/ Startup(MaxFileSize, {}, {})
    \/ Startup(MaxFileSize,
               {MetadataDir, MetadataSub, NestedTop, NestedMid, NestedLeaf, OldFolder},
               {MetadataRecord, OldFile})

FoldersInit ==
    InitRequest({NameInFolderA}, {FileSizeNumber(0), FileSizeNumber(1)}, {BatchOne},
                MaxPathUploads)
FoldersCancel == CancelRequest(NoFaults)
FoldersJanitorSweep == JanitorSweep(NoFaults)

NextFolders ==
    \/ FoldersInit
    \/ FoldersCancel
    \/ FoldersJanitorSweep
    \/ Tick

SpecFolders == InitFolders /\ [][NextFolders]_vars

\* The documented scenario: uploads of docs/report.pdf, 10 bytes long, sent
\* in chunks of 6 and 4 bytes, on a server that accepts 10 bytes.
InitScenario == Startup(ScenarioFile.n, {}, {})

ScenarioInit == InitRequest({NameReport}, {ScenarioFile}, {NoHeader}, MaxUploads)
ScenarioChunk == ChunkRequest({ScenarioChunks[1], ScenarioChunks[2]}, NoFaults)
ScenarioRetry == ChunkRetry(NoFaults)

NextScenario ==
    \/ ScenarioInit
    \/ ScenarioChunk
    \/ ScenarioRetry

SpecScenario == InitScenario /\ [][NextScenario]_vars

\* Uploads that are left alone or get chunks with and without batch header
\* while time passes and the janitor and the batch sweep run.
TimedInit ==
    InitRequest({NameFile}, {FileSizeNumber(MaxFileSize)}, {BatchOne}, MaxUploads)
TimedChunk == ChunkRequest({1}, NoFaults)
TimedJanitorSweep == JanitorSweep(NoFaults)

NextTimed ==
    \/ TimedInit
    \/ TimedChunk
    \/ TimedJanitorSweep
    \/ BatchSweep
    \/ Tick

SpecTimed == Init /\ [][NextTimed]_vars

\* Init requests that are handled side by side, for files in and outside of
\* folders, and the chunks of the uploads they create.
ConcurrentInit ==
    InitArrives({NameFile, NameInFolderA, NameInFolderB}, {FileSizeNumber(1)},
                {BatchOne}, MaxPathUploads)
ConcurrentChunk == ChunkRequest({1}, NoFaults)

NextConcurrent ==
    \/ ConcurrentInit
    \/ InitMkdirParentStep
    \/ InitMkdirFolderStep
    \/ InitUniqueFolderStep
    \/ InitMkdirFileDirStep
    \/ InitOpenStep
    \/ ConcurrentChunk

SpecConcurrent == InitPaths /\ [][NextConcurrent]_vars

\* Chunk requests and janitor sweeps that are handled side by side while
\* time passes.  A file system call takes far less than the TickMs the clock
\* advances by: the clock stands while a handler waits for one.
RaceInit ==
    InitRequest({NameFile}, {FileSizeNumber(k) : k \in 1..MaxFileSize}, {BatchOne},
                MaxUploads)
RaceChunk == ChunkArrives({1})
RaceChunkWritten == ChunkWrittenStep(NoFaults)
RaceChunkEnded == ChunkEndedStep(Outcomes)
RaceSweepUnlink == SweepUnlinkStep(NoFaults)
RaceTick == inflight = NoInflight /\ Tick

NextRace ==
    \/ RaceInit
    \/ RaceChunk
    \/ RaceChunkWritten
    \/ RaceChunkEnded
    \/ SweepBeginStep
    \/ RaceSweepUnlink
    \/ SweepRemoveStep
    \/ SweepFoldersStep
    \/ RaceTick

SpecRace == Init /\ [][NextRace]_vars

(***************************************************************************)
(* Properties of the upload life cycle                                     *)
(***************************************************************************)
\* The uploads whose client sent the bytes of its file in order, each once,
\* and that nothing cancelled or failed.
Sequential(u) == ~client[u].dup /\ ~client[u].disturbed

\* The client has sent every byte of a non-empty file.
SentAll(u) == client[u].fileSize > 0 /\ client[u].pos = client[u].fileSize

\* C1: once the chunks of an accepted upload of size > 0, sent one after the
\* other, add up to exactly size bytes, the file holds exactly those bytes in
\* the order sent and no session remains for the upload id.
C1_SequentialUploadCompletes ==
    \A u \in DOMAIN client :
        (Sequential(u) /\ SentAll(u)) =>
            /\ client[u].filePath \in DOMAIN files
            /\ files[client[u].filePath] = Bytes(0, client[u].fileSize)
            /\ u \notin DOMAIN uploads

\* An upload that was completed by more than one chunk.
C1_Witness ==
    \E u \in DOMAIN client :
        /\ Sequential(u) /\ SentAll(u)
        /\ client[u].lastN < client[u].fileSize
        /\ files[client[u].filePath] = Bytes(0, client[u].fileSize)
        /\ u \notin DOMAIN uploads

\* C2: a chunk that would take the upload past its declared size is cut, so
\* the file of an upload never holds more bytes than were declared.
C2_NeverMoreThanDeclared ==
    \A u \in DOMAIN client :
        client[u].filePath \in DOMAIN files =>
            Len(files[client[u].filePath]) <= client[u].fileSize

\* C3: the byte count of every session lies between 0 and the declared size.
C3_BytesReceivedInRange ==
    \A u \in DOMAIN uploads :
        /\ 0 <= uploads[u].bytesReceived
        /\ uploads[u].bytesReceived <= uploads[u].fileSize

\* C4: a restart of the process keeps every session, with its byte count.
C4_SessionsSurviveRestart ==
    [][resp'.op = "restart" =>
          \A u \in DOMAIN uploads :
              /\ u \in DOMAIN uploads'
              /\ uploads'[u].bytesReceived = uploads[u].bytesReceived]_vars

\* The last response answers a chunk the client sent for an upload it had
\* already seen complete.
ReplayAnswered(u) ==
    /\ u \in DOMAIN client
    /\ client[u].replayed
    /\ resp.op = "chunk"
    /\ resp.uploadId = u

\* C5 as stated: a chunk sent again after the upload completed is answered
\* with success and 100 percent.
C5_ReplayIsSuccess ==
    \A u \in DOMAIN client :
        ReplayAnswered(u) => (resp.status = 200 /\ resp.progress = 100)

\* C5 as the handler has it: a chunk sent after the upload completed is
\* answered with not-found, and the request changes nothing on disk.
C5_ReplayIsNotFound ==
    [][\A u \in DOMAIN client :
          (client[u].done /\ resp'.op = "chunk" /\ resp'.uploadId = u /\ resp' # resp) =>
              /\ resp'.status = 404
              /\ files' = files
              /\ dirs' = dirs
              /\ uploads' = uploads]_vars

\* The final chunk of a completed non-empty upload was sent again.
C5_Witness ==
    \E u \in DOMAIN client :
        /\ ReplayAnswered(u)
        /\ Sequential(u) /\ SentAll(u)
        /\ resp.status = 404
        /\ files[client[u].filePath] = Bytes(0, client[u].fileSize)

\* C7: after the init of an empty file the file exists with no bytes, and
\* neither the session table nor the upload-to-batch table knows the id.
C7_ZeroByteLeavesNoTrace ==
    \A u \in DOMAIN client :
        (client[u].fileSize = 0 /\ client[u].pos = 0) =>
            /\ client[u].filePath \in DOMAIN files
            /\ files[client[u].filePath] = <<>>
            /\ u \notin DOMAIN uploads
            /\ u \notin DOMAIN uploadToBatch

\* "/app/uploads/docs/report.pdf"
ScenarioPath == UploadDir \o << <<"d", "o", "c", "s">>,
                               <<"r", "e", "p", "o", "r", "t", ".", "p", "d", "f">> >>

\* C6: after the init of docs/report.pdf with size 10, a 6-byte chunk is
\* answered with 6 bytes and 60 percent, the following 4-byte chunk with 10
\* bytes and 100 percent, the file then holds the 10 bytes, and the 4-byte
\* chunk sent once more is answered with not-found.
C6_Scenario ==
    \A u \in DOMAIN client :
        LET c == client[u]
            answered == resp.op = "chunk" /\ resp.uploadId = u
            stored == /\ c.filePath \in DOMAIN files
                      /\ files[c.filePath] = Bytes(0, 10)
                      /\ (u = 1 => c.filePath = ScenarioPath)
        IN  (c.fileSize = 10 /\ Sequential(u) /\ answered) =>
                /\ (c.pos = 6 /\ c.lastN = 6) =>
                       (resp.status = 200 /\ resp.bytesReceived = 6 /\ resp.progress = 60)
                /\ (c.pos = 10 /\ c.lastN = 4 /\ ~c.replayed) =>
                       (resp.status = 200 /\ resp.bytesReceived = 10
                            /\ resp.progress = 100 /\ stored)
                /\ (c.pos = 10 /\ c.lastN = 4 /\ c.replayed) =>
                       (resp.status = 404 /\ stored)

\* The whole scenario has run on the first upload.
C6_Witness ==
    /\ 1 \in DOMAIN client
    /\ client[1].fileSize = 10 /\ Sequential(1)
    /\ client[1].pos = 10 /\ client[1].lastN = 4 /\ client[1].replayed
    /\ resp.op = "chunk" /\ resp.uploadId = 1 /\ resp.status = 404
    /\ files[ScenarioPath] = Bytes(0, 10)

(***************************************************************************)
(* Properties of the paths                                                 *)
(***************************************************************************)
\* C8: every file an init creates lies inside the upload directory.
C8_FilesInsideUploadDir ==
    \A u \in DOMAIN client :
        /\ IsPrefix(UploadDir, client[u].filePath)
        /\ Len(client[u].filePath) > Len(UploadDir)

\* The path p with " (k)" between base name and extension.
Suffixed(p, k) ==
    Append(PathDirname(p),
           PathBasenameNoExt(p) \o <<" ", "(">> \o NumStr(k) \o <<")">>
               \o PathExtname(PathBasename(p)))

\* The numbers a name can get.
Numbers == 1..(MaxPathUploads + 1)

\* The init of upload u, asking for path req, got the first free one of
\* req, req (1), req (2), ... and created a file there.
GotFirstFree(u, req) ==
    LET got == client'[u].filePath
        Taken(p) == p \in dirs' \/ p \in DOMAIN files
    IN  /\ ~Taken(got)
        /\ got \in DOMAIN files'
        /\ IF ~Taken(req) THEN got = req
           ELSE \E k \in Numbers :
                    /\ got = Suffixed(req, k)
                    /\ \A j \in 1..(k - 1) : Taken(Suffixed(req, j))

\* C9 as stated: an init gets the path of its relative name below the upload
\* directory if that is free, and else that path with the smallest free
\* number, from 1, before the extension.
C9_SameRelativePath ==
    [][\A u \in (DOMAIN client') \ (DOMAIN client) :
          GotFirstFree(u, PathJoinParts(UploadDir, client'[u].parts))]_vars

\* C9 for uploads that resolve to the same target path, which is the relative
\* name with its first folder replaced by the folder chosen for the batch:
\* an init gets the target path if it is free, and else the target path with
\* the smallest free number, from 1, before the extension.
C9_SameTargetPath ==
    [][\A u \in (DOMAIN client') \ (DOMAIN client) :
          GotFirstFree(u, client'[u].requested)]_vars

\* Two uploads of one target path: the first has it, the second has it
\* with " (1)".
C9_Witness ==
    \E u, v \in DOMAIN client :
        /\ u < v
        /\ client[u].requested = client[v].requested
        /\ client[u].filePath = client[u].requested
        /\ client[v].filePath = Suffixed(client[v].requested, 1)
        /\ {client[u].filePath, client[v].filePath} \subseteq DOMAIN files

\* The folder f with " (k)".
NumberedFolderName(f, k) == f \o <<" ", "(">> \o NumStr(k) \o <<")">>

\* Uploads u and v name the same folder in the same batch.
SameFolderOfBatch(c, u, v) ==
    /\ c[u].folder # <<>>
    /\ c[u].folder = c[v].folder
    /\ c[u].batchId = c[v].batchId

NothingChanges ==
    UNCHANGED <<uploads, folderMappings, batchActivity, uploadToBatch, dirs, files>>

\* C13: no init with a declared size above the configured maximum is
\* accepted, and the rejection of one carries the maximum and creates no
\* file, no directory and no session.
C13_OversizedInitRejected ==
    [][resp'.op = "init" =>
          /\ \A u \in (DOMAIN client') \ (DOMAIN client) :
                 client'[u].fileSize <= config.maxFileSize
          /\ resp'.status = 413 =>
                 /\ resp'.limit = config.maxFileSize
                 /\ UNCHANGED <<uploads, dirs, files>>]_vars

\* An init was rejected as too large, and nothing exists.
C13_Witness ==
    /\ resp.op = "init" /\ resp.status = 413 /\ resp.limit = config.maxFileSize
    /\ DOMAIN files = {} /\ DOMAIN uploads = {} /\ dirs = Prefixes(UploadDir)

\* C14: the cancellation of an upload that has received bytes removes its
\* file and its session, and every chunk sent for a cancelled upload is
\* answered with not-found.
C14_CancelRemovesPartial ==
    [][/\ \A u \in DOMAIN uploads :
              (resp'.op = "cancel" /\ resp'.uploadId = u /\ uploads[u].bytesReceived > 0) =>
                  /\ uploads[u].filePath \notin DOMAIN files'
                  /\ u \notin DOMAIN uploads'
       /\ \A u \in DOMAIN client' :
              client'[u].cancelledAt >= 0 =>
                  /\ u \notin DOMAIN uploads'
                  /\ (resp'.op = "chunk" /\ resp'.uploadId = u) => resp'.status = 404]_vars

\* A chunk was sent for an upload that was cancelled after it had received
\* bytes: it was answered not-found, and the file is gone.
C14_Witness ==
    \E u \in DOMAIN client :
        /\ client[u].cancelledAt > 0
        /\ resp.op = "chunk" /\ resp.uploadId = u /\ resp.status = 404
        /\ client[u].filePath \notin DOMAIN files
        /\ u \notin DOMAIN uploads

\* C15: every cancellation is answered with success and leaves no session
\* for the handle, and the cancellation of a handle without a session, be it
\* unknown, finalized or cancelled before, changes nothing.
C15_CancelAlwaysSucceeds ==
    [][resp'.op = "cancel" =>
          /\ resp'.status = 200
          /\ resp'.uploadId \notin DOMAIN uploads'
          /\ resp'.uploadId \notin DOMAIN uploads => NothingChanges]_vars

\* An upload was cancelled and its file could not be deleted.
C15_Witness ==
    \E u \in DOMAIN client :
        /\ client[u].cancelledAt >= 0
        /\ resp.op = "cancel" /\ resp.uploadId = u /\ resp.status = 200
        /\ client[u].filePath \in DOMAIN files
        /\ u \notin DOMAIN uploads

\* C19 as stated: a chunk or a cancellation for a handle without a session is
\* answered with not-found and changes nothing.
C19_UnknownHandleNotFound ==
    [][(resp'.op \in {"chunk", "cancel"} /\ resp'.uploadId \notin DOMAIN uploads) =>
          (resp'.status = 404 /\ NothingChanges)]_vars

\* C19 as the handlers have it: a chunk for a handle without a session is
\* answered with not-found, which no other answer to a chunk is, a
\* cancellation for one is answered with success, and neither changes anything.
C19_UnknownHandleChangesNothing ==
    [][/\ (resp'.op \in {"chunk", "cancel"} /\ resp'.uploadId \notin DOMAIN uploads) =>
              /\ resp'.status = IF resp'.op = "chunk" THEN 404 ELSE 200
              /\ NothingChanges
       /\ (resp'.op = "chunk" /\ resp'.uploadId \in DOMAIN uploads) =>
              resp'.status # 404]_vars

\* A chunk for a handle that was never given out was answered not-found.
C19_Witness ==
    /\ resp.op = "chunk" /\ resp.status = 404
    /\ resp.uploadId \notin DOMAIN client
    /\ DOMAIN client # {}

\* C20: a chunk request that fails leaves the session as it was before the
\* request, and the file too.
C20_FailureLeavesSession ==
    [][\A u \in DOMAIN uploads :
          (resp'.op = "chunk" /\ resp'.uploadId = u /\ resp'.status = 500) =>
              /\ u \in DOMAIN uploads'
              /\ uploads'[u] = uploads[u]
              /\ files' = files]_vars

(***************************************************************************)
(* Properties of the janitor                                               *)
(***************************************************************************)
\* The time of the last accepted init or chunk of any upload of u's batch.
BatchTouched(u) ==
    LET times == {client[v].touched :
                      v \in {w \in DOMAIN client : client[w].batchId = client[u].batchId}}
    IN  CHOOSE t \in times : \A x \in times : x <= t

\* C16: a session that a janitor sweep found when the last activity of its
\* batch was older than the inactivity timeout is gone, and its file too.
C16_StaleSessionsReclaimed ==
    \A u \in DOMAIN client :
        client[u].sweptAt - BatchTouched(u) > inactivityThreshold =>
            /\ u \notin DOMAIN uploads
            /\ client[u].filePath \notin DOMAIN files

\* C17: the janitor removes no session whose last accepted init or chunk is
\* within the inactivity timeout.
C17_FreshSessionsUntouched ==
    \A u \in DOMAIN client :
        client[u].removedAt >= 0 =>
            client[u].removedAt - client[u].touched > inactivityThreshold

(***************************************************************************)
(* Properties of concurrent init requests                                  *)
(***************************************************************************)
\* The folders of the upload directory that hold the file of an upload.
FoldersUsed(u) == {d \in dirs : Len(d) = Len(UploadDir) + 1
                                /\ IsPrefix(d, client[u].filePath)}

\* C11: two uploads of one batch that name the same folder, however their
\* init requests were interleaved, have their files in one folder, which is
\* the one the folder mapping of the batch names.
C11_ConcurrentInitsShareFolder ==
    \A u, v \in DOMAIN client :
        SameFolderOfBatch(client, u, v) =>
            /\ FoldersUsed(u) = FoldersUsed(v)
            /\ folderMappings[MappingKey(client[u].folder, client[u].batchId)]
                   = client[u].chosen

\* C12: however the init requests are interleaved, a step takes nothing away
\* from the content of a file, the path of a newly accepted upload named
\* nothing on disk before, and no two accepted uploads have the same path.
C12_InitNeverReusesPath ==
    [][/\ \A p \in (DOMAIN files) \cap (DOMAIN files') : IsPrefix(files[p], files'[p])
       /\ \A u \in (DOMAIN client') \ (DOMAIN client) :
              ~FsExists(dirs, files, client'[u].filePath)
       /\ \A u, v \in DOMAIN client' :
              u # v => client'[u].filePath # client'[v].filePath]_vars

\* An init request that arrived later was answered first, has its byte on
\* disk, and the earlier one for the same path is at its numbered variant.
C12_Witness ==
    \E u \in DOMAIN client, v \in DOMAIN inflight.init :
        /\ v < u
        /\ client[u].filePath = inflight.init[v].filePath
        /\ files[client[u].filePath] = Bytes(0, 1)
        /\ inflight.init[v].pc = "open"
        /\ inflight.init[v].finalPath # inflight.init[v].filePath
        /\ ~FsExists(dirs, files, inflight.init[v].finalPath)

(***************************************************************************)
(* Properties of sweeps that run while chunks arrive                       *)
(***************************************************************************)
\* C18: the file of an upload whose final chunk was answered with success is
\* on disk with all its bytes, whatever sweep ran before, meanwhile or after.
C18_FinalizedFileKept ==
    \A u \in DOMAIN client :
        client[u].done =>
            /\ client[u].filePath \in DOMAIN files
            /\ files[client[u].filePath] = Bytes(0, client[u].fileSize)

(***************************************************************************)
(* Properties of the checks of the init request                            *)
(***************************************************************************)
\* The extension of the file an upload was accepted for, in lower case, is
\* one of the extensions the deployment allows: ".t".
HasAllowedExtension(c) ==
    LET base == Last(c.parts)
    IN  /\ Len(base) > 2
        /\ SubSeq(base, Len(base) - 1, Len(base)) \in {<<".", "t">>, <<".", "T">>}

\* C22: an init request without file name, without or with an invalid or an
\* oversized size, with a malformed batch id or with a disallowed extension is
\* not accepted, and an init that is rejected as a client error creates no
\* file, no directory, no session and no folder mapping.
C22_RejectedInitWritesNothing ==
    [][resp'.op = "init" =>
          /\ \A u \in (DOMAIN client') \ (DOMAIN client) :
                 /\ client'[u].parts # <<>>
                 /\ client'[u].fileSize \in 0..config.maxFileSize
                 /\ client'[u].header \in {NoHeader, BatchOne, BatchTwo}
                 /\ config.allowedExtensions.configured => HasAllowedExtension(client'[u])
          /\ resp'.status \in {400, 413} =>
                 UNCHANGED <<uploads, uploadToBatch, folderMappings, dirs, files,
                             nextId, client>>]_vars

\* An init was rejected for its extension on a disk that holds nothing.
C22_Witness ==
    /\ resp.op = "init" /\ resp.status = 400 /\ resp.error = "File type not allowed"
    /\ DOMAIN batchActivity # {}
    /\ DOMAIN files = {} /\ DOMAIN uploads = {} /\ dirs = Prefixes(UploadDir)

\* C28: with ALLOWED_EXTENSIONS set, an upload is accepted only for a file
\* whose extension in lower case is in the list, and the rejection for the
\* extension creates nothing; without it no init is rejected for its extension.
C28_OnlyAllowedExtensions ==
    [][resp'.op = "init" =>
          /\ config.allowedExtensions.configured =>
                 \A u \in (DOMAIN client') \ (DOMAIN client) :
                     HasAllowedExtension(client'[u])
          /\ resp'.error = "File type not allowed" =>
                 /\ config.allowedExtensions.configured
                 /\ UNCHANGED <<uploads, uploadToBatch, dirs, files>>]_vars

\* With the list " .T" configured, the upload of a.T was accepted.
C28_Witness ==
    \E u \in DOMAIN client :
        /\ config.allowedExtensions.configured
        /\ client[u].parts = <<NameUpperExt>>
        /\ client[u].filePath \in DOMAIN files
        /\ resp.op = "init" /\ resp.status = 200 /\ resp.uploadId = u

\* C23: the batch id of every upload and of every batch-activity entry, be
\* it sent by the client or made up by the init handler, passes isValidBatchId.
C23_SynthesizedBatchIdValid ==
    /\ \A b \in DOMAIN batchActivity : isValidBatchId(b)
    /\ \A u \in DOMAIN uploadToBatch : isValidBatchId(uploadToBatch[u])

(***************************************************************************)
(* Properties of the batch sweep                                           *)
(***************************************************************************)
\* The key of a folder mapping ends with "-" and the batch id.
KeyOfBatch(key, batchId) ==
    /\ Len(key) > Len(batchId)
    /\ SubSeq(key, Len(key) - Len(batchId), Len(key)) = <<"-">> \o batchId

\* C24: a batch sweep that drops a batch leaves no folder mapping of a batch
\* that has no batch-activity entry, and deletes no file.
C24_SweepDropsFolderMappings ==
    [][(DOMAIN batchActivity' # DOMAIN batchActivity
          /\ DOMAIN batchActivity' \subseteq DOMAIN batchActivity) =>
          /\ \A key \in DOMAIN folderMappings' :
                 \E b \in DOMAIN batchActivity' : KeyOfBatch(key, b)
          /\ files' = files]_vars

(***************************************************************************)
(* Properties of the chunk response                                        *)
(***************************************************************************)
\* p is bytesReceived / fileSize * 100 rounded to the nearest whole number,
\* halves upwards.
IsRounded(p, bytesReceived, fileSize) ==
    /\ 2 * fileSize * p <= 200 * bytesReceived + fileSize
    /\ 200 * bytesReceived + fileSize < 2 * fileSize * (p + 1)

\* C30: a chunk answered with success reports the bytes received before plus
\* the length of the chunk, and as progress the rounded percentage of the
\* declared size, or 100 if that is more: a whole number from 0 to 100.
C30_ProgressReported ==
    [][(resp'.op = "chunk" /\ resp'.status = 200) =>
          LET u == resp'.uploadId
          IN  /\ u \in DOMAIN uploads
              /\ resp'.bytesReceived = uploads[u].bytesReceived + client'[u].lastN
              /\ resp'.progress \in 0..100
              /\ \/ IsRounded(resp'.progress, resp'.bytesReceived, uploads[u].fileSize)
                 \/ /\ resp'.progress = 100
                    /\ resp'.bytesReceived >= uploads[u].fileSize]_vars

\* Two of seven bytes are 28.57 percent: the chunk was answered with 29.
C30_Witness ==
    /\ resp.op = "chunk" /\ resp.status = 200
    /\ resp.bytesReceived = 2 /\ resp.progress = 29
    /\ resp.uploadId \in DOMAIN uploads
    /\ uploads[resp.uploadId].fileSize = 7

\* C29: a chunk request that fails, in the write or in the end of the
\* stream, deletes neither the session nor the file and takes nothing from
\* the content of the file, and a chunk for a session that exists is never
\* answered with not-found.
C29_FailedFinalizeKeepsAll ==
    [][resp'.op = "chunk" =>
          LET u == resp'.uploadId
          IN  /\ (resp'.status = 500) =>
                     /\ u \in DOMAIN uploads /\ u \in DOMAIN uploads'
                     /\ uploads'[u].filePath = uploads[u].filePath
                     /\ uploads[u].filePath \in DOMAIN files =>
                            /\ uploads[u].filePath \in DOMAIN files'
                            /\ IsPrefix(files[uploads[u].filePath],
                                        files'[uploads[u].filePath])
              /\ (u \in DOMAIN uploads) => resp'.status \in {200, 500}]_vars

\* The end of the stream failed on the final chunk: the session is there with
\* all bytes counted, and the file holds them.
C29_Witness ==
    \E u \in DOMAIN uploads :
        /\ resp.op = "chunk" /\ resp.uploadId = u /\ resp.status = 500
        /\ uploads[u].bytesReceived = uploads[u].fileSize
        /\ uploads[u].filePath \in DOMAIN files
        /\ files[uploads[u].filePath] = Bytes(0, uploads[u].fileSize)

\* C21: a notification that fails neither fails nor undoes the upload it
\* reports: the chunk that completes the upload is answered 200, the file
\* holds the chunk and the session is gone; the same for the init of an empty
\* file.
C21_NotifierFailureHarmless ==
    [][/\ (resp'.op = "chunk" /\ resp'.uploadId \in DOMAIN uploads) =>
           LET u == resp'.uploadId
               fp == uploads[u].filePath
               n == client'[u].lastN
           IN  uploads[u].bytesReceived + n >= uploads[u].fileSize =>
                   /\ resp'.status = 200
                   /\ resp'.notified \in {"info", "error"}
                   /\ u \notin DOMAIN uploads'
                   /\ fp \in DOMAIN files'
                   /\ Len(files'[fp]) = Len(files[fp]) + n
       /\ (resp'.op \in {"chunk", "init"} /\ resp'.notified = "error") =>
           /\ resp'.status = 200
           /\ resp'.uploadId \notin DOMAIN uploads'
           /\ client'[resp'.uploadId].filePath \in DOMAIN files']_vars

\* The notification of an upload completed by a chunk failed.
C21_Witness ==
    /\ resp.op = "chunk" /\ resp.notified = "error" /\ resp.status = 200
    /\ resp.uploadId \notin DOMAIN uploads
    /\ resp.bytesReceived > 0
    /\ Len(files[client[resp.uploadId].filePath]) = resp.bytesReceived

\* C25: a chunk request answered while, or after, its upload is cancelled is
\* answered 200 or 404, and once the cancel and the chunk requests have
\* finished neither the session nor the file of the upload exists.
C25_CancelRaceOutcomes ==
    /\ (resp.op = "chunk" /\ resp.uploadId \in DOMAIN client
        /\ client[resp.uploadId].cancelledAt >= 0) => resp.status \in {200, 404}
    /\ \A u \in DOMAIN client :
          (client[u].cancelledAt >= 0 /\ inflight = NoInflight) =>
              /\ u \notin DOMAIN uploads
              /\ client[u].filePath \notin DOMAIN files

\* C26: with a PIN configured, a request whose cookie and x-pin header both
\* differ from the PIN is answered 401, reaches no handler and changes no
\* upload state.
IsThePin(credential) == credential.set /\ credential.value = config.pin

C26_PinGate ==
    [][(config.pin # NoPin /\ request'.op # "none"
        /\ ~IsThePin(request'.cookie) /\ ~IsThePin(request'.xpin)) =>
           /\ ~request'.reached
           /\ resp'.status = 401
           /\ UNCHANGED <<uploads, folderMappings, batchActivity, uploadToBatch, dirs,
                          files, nextId>>]_vars

\* C27: in one window of the limiter at most LimiterMax init requests of a
\* client reach the init handler.
C27_InitRateBounded == request.through <= LimiterMax

\* C31: a chunk answered with progress 100 has completed the upload: the
\* bytes received are at least the declared size.
C31_FullProgressMeansComplete ==
    [][(resp'.op = "chunk" /\ resp'.status = 200 /\ resp'.progress = 100) =>
          /\ resp'.uploadId \in DOMAIN uploads
          /\ resp'.bytesReceived >= uploads[resp'.uploadId].fileSize]_vars

\* C32: a sweep of the janitor removes every directory below the upload
\* directory that holds no file, at any depth, and no .metadata directory;
\* it keeps the upload directory, every .metadata directory with all that is
\* in it, every directory that holds a file, and every file that is not the
\* file of a stale upload.
HoldsFile(p, f) == \E q \in DOMAIN f : IsPrefix(p, q)

HoldsMetadata(p, d) == \E q \in d : IsPrefix(p, q) /\ InsideMetadata(q)

C32_EmptyFoldersSwept ==
    [][FoldersJanitorSweep =>
          /\ dirs' \subseteq dirs
          /\ UploadDir \in dirs'
          /\ \A p \in dirs :
                /\ (InsideMetadata(p) \/ HoldsFile(p, files')) => p \in dirs'
                /\ (/\ IsPrefix(UploadDir, p) /\ p # UploadDir
                    /\ ~HoldsFile(p, files') /\ ~HoldsMetadata(p, dirs)) => p \notin dirs'
          /\ \A q \in DOMAIN files :
                \/ q \in DOMAIN files' /\ files'[q] = files[q]
                \/ \E u \in DOMAIN uploads : IsInactive(u) /\ uploads[u].filePath = q]_vars

\* The nested empty directories are gone, the .metadata directory is as it was.
C32_Witness ==
    /\ {NestedTop, NestedMid, NestedLeaf} \cap dirs = {}
    /\ {MetadataDir, MetadataSub, OldFolder} \subseteq dirs
    /\ {MetadataRecord, OldFile} \subseteq DOMAIN files

\* C33: in every scan of the metadata janitor, a record that cannot be read
\* or parsed stays as it is, and every session record whose last activity is
\* more than the timeout ago is removed together with its partial file,
\* whatever the other records of the directory are.
IsCorrupt(record) == record.kind \in {"unreadable", "corrupt"}

IsStaleSession(record) ==
    record.kind = "session" /\ now - record.lastActivity > UPLOAD_TIMEOUT

C33_CorruptRecordSkipped ==
    [][MetadataJanitorSweep =>
          \A n \in DOMAIN metadata :
              /\ (n.ext = "meta" /\ IsCorrupt(metadata[n])) =>
                     n \in DOMAIN metadata' /\ metadata'[n] = metadata[n]
              /\ (n.ext = "meta" /\ IsStaleSession(metadata[n])) =>
                     /\ n \notin DOMAIN metadata'
                     /\ metadata[n].partialFilePath \notin DOMAIN files'
              /\ (n.ext = "meta" /\ metadata[n].kind = "session"
                  /\ ~IsStaleSession(metadata[n])) =>
                     /\ n \in DOMAIN metadata'
                     /\ metadata[n].partialFilePath # NoPath =>
                            metadata[n].partialFilePath \in DOMAIN files']_vars

\* The first record is corrupt and still there; the second, a stale session,
\* is gone with its partial file.
C33_Witness ==
    /\ MetaFile(1) \in DOMAIN metadata /\ IsCorrupt(metadata[MetaFile(1)])
    /\ MetaFile(2) \notin DOMAIN metadata
    /\ PartialTwo \notin DOMAIN files
    /\ PartialOne \in DOMAIN files

\* C34: the stored file of an upload is at every time the beginning of the
\* client's file, and the whole of it once the upload is complete.
C34_RetryKeepsContent ==
    \A u \in DOMAIN client :
        LET c == client[u]
        IN  c.filePath \in DOMAIN files =>
                /\ IsPrefix(files[c.filePath], Bytes(0, c.fileSize))
                /\ u \notin DOMAIN uploads => files[c.filePath] = Bytes(0, c.fileSize)

\* C35: however the chunk requests for one upload interleave, the upload is
\* finalized at most once: at most one call of writeStream.end() reports
\* success and the notifier is called at most once for the upload.
C35_FinalizedOnce ==
    \A u \in (DOMAIN parallel.ended) \cup (DOMAIN parallel.notified) :
        /\ Count(parallel.ended, u) <= 1
        /\ Count(parallel.notified, u) <= 1

\* C36: whenever no request is being served, every upload id that has an entry
\* in uploadToBatch has an entry in uploads.
C36_BatchEntriesHaveUploads ==
    inflight = NoInflight => DOMAIN uploadToBatch \subseteq DOMAIN uploads

\* C37: a failed verification adds one to the counter of its IP and a
\* successful one removes the counter; once the counter has reached
\* MAX_ATTEMPTS, every request of that IP with a well-formed PIN, the correct
\* one included, is answered 429 as long as less than LOCKOUT_DURATION has
\* passed since the last attempt of that IP.
C37_Lockout ==
    [][\A ip \in {IpOne, IpTwo}, pin \in BodyPins :
          (LockoutVerify(ip, pin) /\ CleanedPin(pin) # NoPin) =>
              LET before == AttemptsOf(loginAttempts, ip)
                  after == AttemptsOf(loginAttempts', ip)
              IN  /\ (before.count >= MAX_ATTEMPTS
                        /\ now - before.lastAttempt < LOCKOUT_DURATION)
                         => resp'.status = 429
                  /\ resp'.status = 401 =>
                         /\ after.lastAttempt = now
                         /\ after.count = IF before.count < MAX_ATTEMPTS
                                          THEN before.count + 1 ELSE 1
                  /\ resp'.status = 200 =>
                         /\ CleanedPin(pin) = config.pin
                         /\ after.count = 0
      ]_vars

\* An address whose counter stood at MAX_ATTEMPTS has asked again within the
\* lockout, in a new window of the limiter, and the handler answered 429.
C37_Witness ==
    /\ resp.op = "verify-pin"
    /\ resp.status = 429
    /\ IpOne \in DOMAIN loginAttempts
    /\ loginAttempts[IpOne].count = MAX_ATTEMPTS + 1
    /\ loginAttempts[IpOne].lastAttempt = now
    /\ now > 0
    /\ IpOne \in DOMAIN limiter
    /\ limiter[IpOne] = 1

\* C38: safeCompare(a, b) returns true exactly when a and b are strings and
\* are the same string.
C38_SafeCompareIsEquality ==
    resp.op = "safeCompare" =>
        (resp.returned = "true" <=>
            /\ request.cookie.set
            /\ request.xpin.set
            /\ request.cookie.value = request.xpin.value)

\* C39: a run of executeCleanup has called every task that was registered
\* when it began, whatever the tasks before it did; it never rejects; and it
\* comes to its end with the registry empty, whether the tasks resolve, throw,
\* reject or never settle.
C39_CleanupCompletes ==
    /\ [](cleanupTasks.settled # "rejected")
    /\ [](cleanupTasks.settled = "pending" =>
              cleanupTasks.started = 1..Len(cleanupTasks.run))
    /\ [][cleanupTasks.settled = "pending" /\ cleanupTasks'.settled # "pending" =>
              cleanupTasks'.settled = "resolved" /\ cleanupTasks'.registry = <<>>]_vars
    /\ (cleanupTasks.settled = "pending") ~> (cleanupTasks.settled = "resolved")

\* A run over a task that throws, one that never settles and one that rejects
\* has ended, with the registry empty, after the timer of the second fired.
C39_Witness ==
    /\ cleanupTasks.settled = "resolved"
    /\ cleanupTasks.log = "completed"
    /\ cleanupTasks.registry = <<>>
    /\ Len(cleanupTasks.run) = Len(NoTasks.registry) + MaxTasks
    /\ \E i, j \in cleanupTasks.started :
           /\ i < j
           /\ cleanupTasks.run[i] = "throws"
           /\ cleanupTasks.run[j] = "hangs"
    /\ cleanupTasks.waiting = {}

=============================================================================
